---- MODULE Spec2Model ----
(***************************************************************************)
(* Bidzr live auction engine: the socket handlers of AuctionSocketManager, *)
(* the REST controllers putPlayerOnBlock and placeBid, and the countdown   *)
(* of AuctionTimerManager, over the documents they read and write.         *)
(*                                                                         *)
(* Every handler is an async function.  Node runs the code between two     *)
(* awaits without interruption, and any other handler may run at an await. *)
(* A handler in flight is a task: its position (pc) and its locals.  One   *)
(* action is one awaited database operation together with the synchronous  *)
(* code that follows it up to the next await.                              *)
(***************************************************************************)
EXTENDS Integers, Sequences, FiniteSets, TLC

NONE == "none"

\* ------------------------------------------------------------------ bounds
MaxTasks == 2
MaxBids == 2
MaxAmount == 2
TeamBudget == 3
BidTimerSeconds == 2

\* --------------------------------------------------------- the documents
Auctions == {"a1", "a2"}
Players == {"p1", "p2", "p3"}
Teams == {"t1", "t2", "t3"}
Sockets == {"admin", "owner1", "owner2", "viewer", "admin2", "owner3"}
Tasks == 1..MaxTasks

playerAuction == [p \in Players |-> IF p = "p3" THEN "a2" ELSE "a1"]
teamAuction == [t \in Teams |-> IF t = "t3" THEN "a2" ELSE "a1"]
basePrice == [p \in Players |-> 1]
bidIncrementAmount == [a \in Auctions |-> 1]
bidTimerSeconds == [a \in Auctions |-> BidTimerSeconds]
initialBudget == [t \in Teams |-> TeamBudget]
userRole ==
  [s \in Sockets |->
     IF s \in {"admin", "admin2"} THEN "admin"
     ELSE IF s = "viewer" THEN "player" ELSE "team_owner"]
\* The team Team.findOne({auction, owner, isActive}) finds for a connection's user.
ownedTeam(s, a) ==
  IF s = "owner1" /\ a = "a1" THEN "t1"
  ELSE IF s = "owner2" /\ a = "a1" THEN "t2"
  ELSE IF s = "owner3" /\ a = "a2" THEN "t3" ELSE NONE
\* Auction.createdBy: the user who may start, pause and end the auction.
createdBy == [a \in Auctions |-> IF a = "a2" THEN "admin2" ELSE "admin"]
\* The room each connection has joined when the model starts.
joinedAuction == [s \in Sockets |-> IF s \in {"admin2", "owner3"} THEN "a2" ELSE "a1"]
PlayersOf(a) == {p \in Players : playerAuction[p] = a}
SocketsIn(a) == {s \in Sockets : joinedAuction[s] = a}

VARIABLES
  auctionStatus,         \* Auction.status
  currentPlayerOnBlock,  \* Auction.currentPlayerOnBlock
  playerStatus,          \* PlayerRegistration.status
  soldPrice,             \* PlayerRegistration.soldPrice (0: unset)
  soldTo,                \* PlayerRegistration.soldTo
  remainingBudget,       \* Team.remainingBudget
  acquiredPlayers,       \* Team.acquiredPlayers
  bids,                  \* the Bid collection, in insertion order
  timers,                \* AuctionTimerManager.timers
  resets,                \* resetTimer callbacks waiting for Auction.findById
  intervals,             \* the setInterval handles not yet cleared
  sockAuction,           \* socket.auctionId
  sockTeam,              \* socket.teamId
  rooms,                 \* the auction rooms each connection is subscribed to
  tasks,                 \* the handlers in flight
  emits,                 \* what the last step emitted
  debited                \* history: amount taken from budgets for each lot

vars ==
  <<auctionStatus, currentPlayerOnBlock, playerStatus, soldPrice, soldTo,
    remainingBudget, acquiredPlayers, bids, timers, resets, intervals, rooms, sockAuction,
    sockTeam, tasks, emits, debited>>

dbAuction == <<auctionStatus, currentPlayerOnBlock>>
dbPlayer == <<playerStatus, soldPrice, soldTo>>
dbTeam == <<remainingBudget, acquiredPlayers, debited>>
sockVars == <<sockAuction, sockTeam, rooms>>
timerVars == <<timers, resets, intervals>>

\* ------------------------------------------------------------------ tasks
Idle ==
  [op |-> "idle", pc |-> "idle", sock |-> NONE, auction |-> NONE,
   player |-> NONE, amount |-> 0, team |-> NONE, budget |-> 0, bid |-> 0,
   bidNumber |-> 0, seenStatus |-> NONE, seenPrice |-> 0, seenTo |-> NONE,
   seenCur |-> NONE, password |-> NONE, status |-> NONE]

FreeTasks == {k \in Tasks : tasks[k].op = "idle"}
\* The bids stored plus the bid requests in flight.
BidsInPlay ==
  Len(bids) + Cardinality({k \in Tasks : tasks[k].op \in {"handlePlaceBid", "placeBid"}
                                         /\ tasks[k].bid = 0})
\* A new invocation takes the first free slot.
NewTask == CHOOSE k \in FreeTasks : \A j \in FreeTasks : k <= j

At(k, op, pc) == tasks[k].op = op /\ tasks[k].pc = pc
Goto(k, t) == tasks' = [tasks EXCEPT ![k] = t]
Done(k) == tasks' = [tasks EXCEPT ![k] = Idle]

\* ------------------------------------------------------------------ events
RoomEvent(a, type, p, val) ==
  [to |-> a, type |-> type, player |-> p, val |-> val]
\* A faulty variant, which sends the error to the room of the connection.
SocketError_toRoom(s, msg) ==
  [to |-> joinedAuction[s], type |-> "error", player |-> msg, val |-> 0]
SocketError(s, msg) ==
  [to |-> s, type |-> "error", player |-> msg, val |-> 0]
HttpError(msg) ==
  [to |-> "http", type |-> "error", player |-> msg, val |-> 0]
\* res.json({success: true, message}) about auction a.
HttpOk(a, msg) ==
  [to |-> "http", type |-> msg, player |-> a, val |-> 0]

\* ------------------------------------------------------------------- timer
NoTimer == [on |-> FALSE, timeRemaining |-> 0, playerId |-> NONE, intervalId |-> 0]

\* A handle of setInterval: the auction and the player its callback closes
\* over (tick(auctionId, onExpire), onExpire being handleTimerExpired for
\* the player), and a number telling the handles of one auction apart.
IntervalsOf(iv, a) == {i \in iv : i.auction = a}
NewIntervalId(iv, a) ==
  CHOOSE n \in 1..(Cardinality(iv) + 1) :
    /\ \A i \in IntervalsOf(iv, a) : i.id # n
    /\ \A m \in 1..(n - 1) : \E i \in IntervalsOf(iv, a) : i.id = m
\* A faulty clearInterval, which leaves the handle running.
clearInterval_forgotten(iv, a, id) == iv
clearInterval(iv, a, id) == {i \in iv : ~(i.auction = a /\ i.id = id)}

\* stopTimer: clearInterval and delete the entry.  A reset callback still
\* waiting holds the deleted Timer object.
stopTimer(tm, a) == [tm EXCEPT ![a] = NoTimer]
StoppedIntervals(iv, tm, a) ==
  IF tm[a].on THEN clearInterval(iv, a, tm[a].intervalId) ELSE iv
StaleResets(rs, a) ==
  {IF r.auction = a THEN [r EXCEPT !.stale = TRUE] ELSE r : r \in rs}

\* startTimer: stop the existing timer, then install the new one.
startTimer(tm, iv, a, p, seconds) ==
  [stopTimer(tm, a) EXCEPT
     ![a] = [on |-> TRUE, timeRemaining |-> seconds, playerId |-> p,
             intervalId |-> NewIntervalId(StoppedIntervals(iv, tm, a), a)]]
StartedIntervals(iv, tm, a, p) ==
  StoppedIntervals(iv, tm, a)
    \cup {[auction |-> a, player |-> p,
           id |-> NewIntervalId(StoppedIntervals(iv, tm, a), a)]}

\* resetTimer, synchronous part: the callback is registered only when the
\* auction's timer is for this player.
resetTimer(rs, tm, a, p) ==
  IF a \in Auctions /\ tm[a].on /\ tm[a].playerId = p
  THEN rs \cup {[auction |-> a, player |-> p, stale |-> FALSE]}
  ELSE rs

\* -------------------------------------------------------------------- bids
BidIds == 1..Len(bids)
ActiveBids(p) ==
  {i \in BidIds : bids[i].player = p /\ bids[i].status = "active"}
\* Bid.findOne({player, status: ACTIVE}).sort({amount: -1}): the candidates;
\* the store may return any document of the greatest amount.
HighestActive(p) ==
  {i \in ActiveBids(p) : \A j \in ActiveBids(p) : bids[j].amount <= bids[i].amount}
\* A faulty minimum, which forgets the increment over the highest bid.
minimumBid_withoutIncrement(h, a, p) ==
  IF h # 0 THEN bids[h].amount ELSE basePrice[p]
minimumBid(h, a, p) ==
  IF h # 0 THEN bids[h].amount + bidIncrementAmount[a] ELSE basePrice[p]
\* Bid.countDocuments({auction, player}) + 1 in the pre-save hook.  The hook
\* is taken to assign bidNumber before the document is validated and stored,
\* as the schema (bidNumber required) intends.
NextBidNumber(a, p) ==
  Cardinality({i \in BidIds : bids[i].auction = a /\ bids[i].player = p}) + 1
\* Bid.updateMany({player, _id: {$ne}, status: ACTIVE}, {status: OUTBID})
MarkOthersOutbid(bs, p, id) ==
  [i \in DOMAIN bs |->
     IF bs[i].player = p /\ i # id /\ bs[i].status = "active"
     THEN [bs[i] EXCEPT !.status = "outbid"] ELSE bs[i]]

\* document.save() writes the paths whose value differs from the loaded one.
SavePath(seen, new, stored) == IF seen = new THEN stored ELSE new

\* -------------------------------------------------------------------- Init
Init ==
  /\ auctionStatus = [a \in Auctions |-> "live"]
  /\ currentPlayerOnBlock = [a \in Auctions |-> NONE]
  /\ playerStatus = [p \in Players |-> "pending"]
  /\ soldPrice = [p \in Players |-> 0]
  /\ soldTo = [p \in Players |-> NONE]
  /\ remainingBudget = initialBudget
  /\ acquiredPlayers = [t \in Teams |-> <<>>]
  /\ bids = <<>>
  /\ timers = [a \in Auctions |-> NoTimer]
  /\ resets = {}
  /\ intervals = {}
  /\ rooms = [s \in Sockets |-> {joinedAuction[s]}]
  /\ sockAuction = joinedAuction
  /\ sockTeam = [s \in Sockets |-> ownedTeam(s, joinedAuction[s])]
  /\ tasks = [k \in Tasks |-> Idle]
  /\ emits = <<>>
  /\ debited = [p \in Players |-> 0]

\* ------------------------------------------- handlePlaceBid (socket place_bid)
\* Lines 189-202: the role and room checks, then Auction.findById is issued.
handlePlaceBid(s, p, amount) ==
  /\ FreeTasks # {}
  /\ BidsInPlay < MaxBids
  /\ UNCHANGED <<dbAuction, dbPlayer, dbTeam, bids, timerVars, sockVars>>
  /\ IF userRole[s] # "team_owner"
     THEN /\ emits' = <<SocketError(s, "Only team owners can bid")>>
          /\ UNCHANGED tasks
     ELSE IF sockTeam[s] = NONE \/ sockAuction[s] = NONE
     THEN /\ emits' = <<SocketError(s, "Not in an auction room")>>
          /\ UNCHANGED tasks
     ELSE /\ emits' = <<>>
          /\ Goto(NewTask,
                  [Idle EXCEPT !.op = "handlePlaceBid", !.pc = "auction",
                               !.sock = s, !.auction = sockAuction[s],
                               !.player = p, !.amount = amount])

\* Lines 202-209: the auction arrives; it must be live.
handlePlaceBid_auction(k) ==
  /\ At(k, "handlePlaceBid", "auction")
  /\ UNCHANGED <<dbAuction, dbPlayer, dbTeam, bids, timerVars, sockVars>>
  /\ IF auctionStatus[tasks[k].auction] # "live"
     THEN /\ emits' = <<SocketError(tasks[k].sock, "Auction is not live")>>
          /\ Done(k)
     ELSE /\ emits' = <<>>
          /\ Goto(k, [tasks[k] EXCEPT !.pc = "player"])

\* Lines 209-216: the player arrives; it must be on the block.  Team.findById
\* is issued with socket.teamId as it is now.
handlePlaceBid_player(k) ==
  /\ At(k, "handlePlaceBid", "player")
  /\ UNCHANGED <<dbAuction, dbPlayer, dbTeam, bids, timerVars, sockVars>>
  /\ IF playerStatus[tasks[k].player] # "in_auction"
     THEN /\ emits' = <<SocketError(tasks[k].sock, "Player is not on the block")>>
          /\ Done(k)
     ELSE /\ emits' = <<>>
          /\ Goto(k, [tasks[k] EXCEPT !.pc = "team",
                                      !.team = sockTeam[tasks[k].sock]])

\* Lines 216-226: the team arrives.
handlePlaceBid_team(k) ==
  /\ At(k, "handlePlaceBid", "team")
  /\ UNCHANGED <<dbAuction, dbPlayer, dbTeam, bids, timerVars, sockVars>>
  /\ IF tasks[k].team = NONE
     THEN /\ emits' = <<SocketError(tasks[k].sock, "Team not found")>>
          /\ Done(k)
     ELSE /\ emits' = <<>>
          /\ Goto(k, [tasks[k] EXCEPT !.pc = "highest",
                                      !.budget = remainingBudget[tasks[k].team]])

\* A faulty variant of the step, which does not compare the amount with the
\* team's remaining budget.
handlePlaceBid_highest_anyBudget(k) ==
  LET t == tasks[k]
      s == t.sock
  IN
  /\ At(k, "handlePlaceBid", "highest")
  /\ UNCHANGED <<dbAuction, dbPlayer, dbTeam, bids, timerVars, sockVars>>
  /\ \E h \in (IF HighestActive(t.player) = {} THEN {0} ELSE HighestActive(t.player)) :
       IF t.amount < minimumBid(h, t.auction, t.player)
       THEN /\ emits' = <<SocketError(s, "Minimum bid")>>
            /\ Done(k)
       ELSE /\ emits' = <<>>
            /\ Goto(k, [t EXCEPT !.pc = "count", !.auction = sockAuction[s],
                                 !.team = sockTeam[s]])

\* Lines 223-256: the highest active bid arrives; minimum and budget checks;
\* the Bid document is built from socket.auctionId and socket.teamId as they
\* are now, and save() is called (both fields are required).
handlePlaceBid_highest(k) ==
  LET t == tasks[k]
      s == t.sock
  IN
  /\ At(k, "handlePlaceBid", "highest")
  /\ UNCHANGED <<dbAuction, dbPlayer, dbTeam, bids, timerVars, sockVars>>
  /\ \E h \in (IF HighestActive(t.player) = {} THEN {0} ELSE HighestActive(t.player)) :
       IF t.amount < minimumBid(h, t.auction, t.player)
       THEN /\ emits' = <<SocketError(s, "Minimum bid")>>
            /\ Done(k)
       ELSE IF t.budget < t.amount
       THEN /\ emits' = <<SocketError(s, "Insufficient budget")>>
            /\ Done(k)
       ELSE IF sockAuction[s] = NONE \/ sockTeam[s] = NONE
       THEN /\ emits' = <<SocketError(s, "Failed to place bid")>>
            /\ Done(k)
       ELSE /\ emits' = <<>>
            /\ Goto(k, [t EXCEPT !.pc = "count", !.auction = sockAuction[s],
                                 !.team = sockTeam[s]])

\* bidSchema.pre('save'): countDocuments({auction, player}) + 1.
handlePlaceBid_count(k) ==
  /\ At(k, "handlePlaceBid", "count")
  /\ UNCHANGED <<dbAuction, dbPlayer, dbTeam, bids, timerVars, sockVars>>
  /\ emits' = <<>>
  /\ Goto(k, [tasks[k] EXCEPT
                !.pc = "insert",
                !.bidNumber = NextBidNumber(tasks[k].auction, tasks[k].player)])

\* Line 256: the new bid is stored with status ACTIVE.
handlePlaceBid_insert(k) ==
  LET t == tasks[k] IN
  /\ At(k, "handlePlaceBid", "insert")
  /\ UNCHANGED <<dbAuction, dbPlayer, dbTeam, timerVars, sockVars>>
  /\ bids' = Append(bids, [auction |-> t.auction, player |-> t.player,
                           team |-> t.team, amount |-> t.amount,
                           status |-> "active", bidNumber |-> t.bidNumber])
  /\ emits' = <<>>
  /\ Goto(k, [t EXCEPT !.pc = "outbid", !.bid = Len(bids) + 1])

\* A faulty variant of the last step of handlePlaceBid, which takes the
\* amount from the bidding team's budget when the bid is accepted.
handlePlaceBid_outbid_debiting(k) ==
  LET t == tasks[k]
      a == sockAuction[t.sock]
  IN
  /\ At(k, "handlePlaceBid", "outbid")
  /\ UNCHANGED <<dbAuction, dbPlayer, acquiredPlayers, debited, timers, intervals,
                 sockVars>>
  /\ remainingBudget' = [remainingBudget EXCEPT ![t.team] = @ - t.amount]
  /\ bids' = MarkOthersOutbid(bids, t.player, t.bid)
  /\ resets' = resetTimer(resets, timers, a, t.player)
  /\ emits' = <<RoomEvent(a, "bid_update", t.player, t.amount)>>
  /\ Done(k)

\* Lines 259-282: the other active bids become OUTBID; then resetTimer and
\* the bid_update broadcast, with socket.auctionId as it is now.
handlePlaceBid_outbid(k) ==
  LET t == tasks[k]
      a == sockAuction[t.sock]
  IN
  /\ At(k, "handlePlaceBid", "outbid")
  /\ UNCHANGED <<dbAuction, dbPlayer, dbTeam, timers, intervals, sockVars>>
  /\ bids' = MarkOthersOutbid(bids, t.player, t.bid)
  /\ resets' = resetTimer(resets, timers, a, t.player)
  /\ emits' = <<RoomEvent(a, "bid_update", t.player, t.amount)>>
  /\ Done(k)

\* The callback of resetTimer (timerManager.ts 63-68): it writes the Timer
\* object it captured, which is the auction's timer only if that timer was
\* not stopped meanwhile, and emits timer_update for its player.
resetTimer_then(r) ==
  /\ r \in resets
  /\ resets' = resets \ {r}
  /\ timers' =
       IF r.stale THEN timers
       ELSE [timers EXCEPT ![r.auction].timeRemaining = bidTimerSeconds[r.auction]]
  /\ emits' = <<RoomEvent(r.auction, "timer_update", r.player,
                          bidTimerSeconds[r.auction])>>
  /\ UNCHANGED <<dbAuction, dbPlayer, dbTeam, bids, sockVars, tasks, intervals>>

\* ------------------------------------------------- placeBid (POST /api/bids)
\* Lines 497-500: the request of user u arrives; Auction.findById is issued.
placeBid(u, a, p, amount) ==
  /\ FreeTasks # {}
  /\ BidsInPlay < MaxBids
  /\ UNCHANGED <<dbAuction, dbPlayer, dbTeam, bids, timerVars, sockVars>>
  /\ emits' = <<>>
  /\ Goto(NewTask, [Idle EXCEPT !.op = "placeBid", !.pc = "auction", !.sock = u,
                                !.auction = a, !.player = p, !.amount = amount])

\* Lines 500-510: the auction must be live.
placeBid_auction(k) ==
  /\ At(k, "placeBid", "auction")
  /\ UNCHANGED <<dbAuction, dbPlayer, dbTeam, bids, timerVars, sockVars>>
  /\ IF auctionStatus[tasks[k].auction] # "live"
     THEN /\ emits' = <<HttpError("Auction is not live")>>
          /\ Done(k)
     ELSE /\ emits' = <<>>
          /\ Goto(k, [tasks[k] EXCEPT !.pc = "player"])

\* Lines 510-524: the player must be on the block.
placeBid_player(k) ==
  /\ At(k, "placeBid", "player")
  /\ UNCHANGED <<dbAuction, dbPlayer, dbTeam, bids, timerVars, sockVars>>
  /\ IF playerStatus[tasks[k].player] # "in_auction"
     THEN /\ emits' = <<HttpError("Player is not currently on the block")>>
          /\ Done(k)
     ELSE /\ emits' = <<>>
          /\ Goto(k, [tasks[k] EXCEPT !.pc = "team"])

\* Lines 520-534: the user's team in this auction.
placeBid_team(k) ==
  LET t == tasks[k]
      team == ownedTeam(t.sock, t.auction)
  IN
  /\ At(k, "placeBid", "team")
  /\ UNCHANGED <<dbAuction, dbPlayer, dbTeam, bids, timerVars, sockVars>>
  /\ IF team = NONE
     THEN /\ emits' = <<HttpError("You do not have a team in this auction")>>
          /\ Done(k)
     ELSE /\ emits' = <<>>
          /\ Goto(k, [t EXCEPT !.pc = "highest", !.team = team,
                               !.budget = remainingBudget[team]])

\* A faulty variant of the step, which does not compare the amount with the
\* team's remaining budget.
placeBid_highest_anyBudget(k) ==
  LET t == tasks[k] IN
  /\ At(k, "placeBid", "highest")
  /\ UNCHANGED <<dbAuction, dbPlayer, dbTeam, bids, timerVars, sockVars>>
  /\ \E h \in (IF HighestActive(t.player) = {} THEN {0} ELSE HighestActive(t.player)) :
       IF t.amount < minimumBid(h, t.auction, t.player)
       THEN /\ emits' = <<HttpError("Minimum bid")>>
            /\ Done(k)
       ELSE /\ emits' = <<>>
            /\ Goto(k, [t EXCEPT !.pc = "count"])

\* Lines 531-560: minimum and budget checks, then bid.save() is called.
placeBid_highest(k) ==
  LET t == tasks[k] IN
  /\ At(k, "placeBid", "highest")
  /\ UNCHANGED <<dbAuction, dbPlayer, dbTeam, bids, timerVars, sockVars>>
  /\ \E h \in (IF HighestActive(t.player) = {} THEN {0} ELSE HighestActive(t.player)) :
       IF t.amount < minimumBid(h, t.auction, t.player)
       THEN /\ emits' = <<HttpError("Minimum bid")>>
            /\ Done(k)
       ELSE IF t.budget < t.amount
       THEN /\ emits' = <<HttpError("Insufficient budget")>>
            /\ Done(k)
       ELSE /\ emits' = <<>>
            /\ Goto(k, [t EXCEPT !.pc = "count"])

\* bidSchema.pre('save'): countDocuments({auction, player}) + 1.
placeBid_count(k) ==
  /\ At(k, "placeBid", "count")
  /\ UNCHANGED <<dbAuction, dbPlayer, dbTeam, bids, timerVars, sockVars>>
  /\ emits' = <<>>
  /\ Goto(k, [tasks[k] EXCEPT
                !.pc = "insert",
                !.bidNumber = NextBidNumber(tasks[k].auction, tasks[k].player)])

\* Line 560: the new bid is stored with status ACTIVE.
placeBid_insert(k) ==
  LET t == tasks[k] IN
  /\ At(k, "placeBid", "insert")
  /\ UNCHANGED <<dbAuction, dbPlayer, dbTeam, timerVars, sockVars>>
  /\ bids' = Append(bids, [auction |-> t.auction, player |-> t.player,
                           team |-> t.team, amount |-> t.amount,
                           status |-> "active", bidNumber |-> t.bidNumber])
  /\ emits' = <<>>
  /\ Goto(k, [t EXCEPT !.pc = "outbid", !.bid = Len(bids) + 1])

\* Lines 563-580: the other active bids become OUTBID; the response is sent.
\* No timer is reset and nothing is broadcast.
placeBid_outbid(k) ==
  LET t == tasks[k] IN
  /\ At(k, "placeBid", "outbid")
  /\ UNCHANGED <<dbAuction, dbPlayer, dbTeam, timerVars, sockVars>>
  /\ bids' = MarkOthersOutbid(bids, t.player, t.bid)
  /\ emits' = <<>>
  /\ Done(k)

\* A faulty variant, which starts the handler whatever the role.
handlePutOnBlock_anyRole(s, p) ==
  /\ FreeTasks # {}
  /\ UNCHANGED <<dbAuction, dbPlayer, dbTeam, bids, timerVars, sockVars>>
  /\ emits' = <<>>
  /\ Goto(NewTask, [Idle EXCEPT !.op = "handlePutOnBlock", !.pc = "player",
                                !.sock = s, !.player = p])

\* ------------------------------------ handlePutOnBlock (admin_put_on_block)
\* Lines 296-303: the role check, then PlayerRegistration.findById is issued.
handlePutOnBlock(s, p) ==
  /\ FreeTasks # {}
  /\ UNCHANGED <<dbAuction, dbPlayer, dbTeam, bids, timerVars, sockVars>>
  /\ IF userRole[s] # "admin"
     THEN /\ emits' = <<SocketError(s, "Admin only action")>>
          /\ UNCHANGED tasks
     ELSE /\ emits' = <<>>
          /\ Goto(NewTask, [Idle EXCEPT !.op = "handlePutOnBlock", !.pc = "player",
                                        !.sock = s, !.player = p])

\* Lines 303-309: the player arrives (its status is not examined);
\* Auction.findById(player.auction) is issued.
handlePutOnBlock_player(k) ==
  LET t == tasks[k] IN
  /\ At(k, "handlePutOnBlock", "player")
  /\ UNCHANGED <<dbAuction, dbPlayer, dbTeam, bids, timerVars, sockVars>>
  /\ emits' = <<>>
  /\ Goto(k, [t EXCEPT !.pc = "auction", !.auction = playerAuction[t.player],
                       !.seenStatus = playerStatus[t.player]])

\* A faulty variant of the step, which does not look at the auction's status.
handlePutOnBlock_auction_anyStatus(k) ==
  LET t == tasks[k] IN
  /\ At(k, "handlePutOnBlock", "auction")
  /\ UNCHANGED <<dbAuction, dbPlayer, dbTeam, bids, timerVars, sockVars>>
  /\ emits' = <<>>
  /\ Goto(k, [t EXCEPT !.pc = "savePlayer",
                       !.seenCur = currentPlayerOnBlock[t.auction]])

\* Lines 309-317: the auction must be live; player.status = IN_AUCTION and
\* player.save() is called.
handlePutOnBlock_auction(k) ==
  LET t == tasks[k] IN
  /\ At(k, "handlePutOnBlock", "auction")
  /\ UNCHANGED <<dbAuction, dbPlayer, dbTeam, bids, timerVars, sockVars>>
  /\ IF auctionStatus[t.auction] # "live"
     THEN /\ emits' = <<SocketError(t.sock, "Auction is not live")>>
          /\ Done(k)
     ELSE /\ emits' = <<>>
          /\ Goto(k, [t EXCEPT !.pc = "savePlayer",
                               !.seenCur = currentPlayerOnBlock[t.auction]])

\* Lines 317-321: the player is stored; auction.save() is called.
handlePutOnBlock_savePlayer(k) ==
  LET t == tasks[k] IN
  /\ At(k, "handlePutOnBlock", "savePlayer")
  /\ UNCHANGED <<dbAuction, soldPrice, soldTo, dbTeam, bids, timerVars, sockVars>>
  /\ playerStatus' =
       [playerStatus EXCEPT
          ![t.player] = SavePath(t.seenStatus, "in_auction", playerStatus[t.player])]
  /\ emits' = <<>>
  /\ Goto(k, [t EXCEPT !.pc = "saveAuction"])

\* Lines 321-346: the auction is stored; then startTimer and the
\* player_on_block broadcast.
handlePutOnBlock_saveAuction(k) ==
  LET t == tasks[k] IN
  /\ At(k, "handlePutOnBlock", "saveAuction")
  /\ UNCHANGED <<auctionStatus, dbPlayer, dbTeam, bids, sockVars>>
  /\ currentPlayerOnBlock' =
       [currentPlayerOnBlock EXCEPT
          ![t.auction] = SavePath(t.seenCur, t.player, currentPlayerOnBlock[t.auction])]
  /\ timers' = startTimer(timers, intervals, t.auction, t.player,
                          bidTimerSeconds[t.auction])
  /\ intervals' = StartedIntervals(intervals, timers, t.auction, t.player)
  /\ resets' = StaleResets(resets, t.auction)
  /\ emits' = <<RoomEvent(t.auction, "timer_update", t.player,
                          bidTimerSeconds[t.auction]),
                RoomEvent(t.auction, "player_on_block", t.player,
                          bidTimerSeconds[t.auction])>>
  /\ Done(k)

\* ------------------------ putPlayerOnBlock (POST /api/players/:id/on-block)
\* Lines 349-351: the request arrives; PlayerRegistration.findById is issued.
putPlayerOnBlock(p) ==
  /\ FreeTasks # {}
  /\ UNCHANGED <<dbAuction, dbPlayer, dbTeam, bids, timerVars, sockVars>>
  /\ emits' = <<>>
  /\ Goto(NewTask, [Idle EXCEPT !.op = "putPlayerOnBlock", !.pc = "player",
                                !.player = p])

\* Lines 351-362: the player must be pending.
putPlayerOnBlock_player(k) ==
  LET t == tasks[k] IN
  /\ At(k, "putPlayerOnBlock", "player")
  /\ UNCHANGED <<dbAuction, dbPlayer, dbTeam, bids, timerVars, sockVars>>
  /\ IF playerStatus[t.player] # "pending"
     THEN /\ emits' = <<HttpError("Player is not pending for auction")>>
          /\ Done(k)
     ELSE /\ emits' = <<>>
          /\ Goto(k, [t EXCEPT !.pc = "auction", !.auction = playerAuction[t.player],
                               !.seenStatus = playerStatus[t.player]])

\* Lines 362-373: the auction must be live; player.save() is called.
putPlayerOnBlock_auction(k) ==
  LET t == tasks[k] IN
  /\ At(k, "putPlayerOnBlock", "auction")
  /\ UNCHANGED <<dbAuction, dbPlayer, dbTeam, bids, timerVars, sockVars>>
  /\ IF auctionStatus[t.auction] # "live"
     THEN /\ emits' = <<HttpError("Auction must be live to put player on block")>>
          /\ Done(k)
     ELSE /\ emits' = <<>>
          /\ Goto(k, [t EXCEPT !.pc = "savePlayer",
                               !.seenCur = currentPlayerOnBlock[t.auction]])

\* Lines 373-377: the player is stored; auction.save() is called.
putPlayerOnBlock_savePlayer(k) ==
  LET t == tasks[k] IN
  /\ At(k, "putPlayerOnBlock", "savePlayer")
  /\ UNCHANGED <<dbAuction, soldPrice, soldTo, dbTeam, bids, timerVars, sockVars>>
  /\ playerStatus' =
       [playerStatus EXCEPT
          ![t.player] = SavePath(t.seenStatus, "in_auction", playerStatus[t.player])]
  /\ emits' = <<>>
  /\ Goto(k, [t EXCEPT !.pc = "saveAuction"])

\* Lines 377-388: the auction is stored; the response is sent.  No timer is
\* started and nothing is broadcast.
putPlayerOnBlock_saveAuction(k) ==
  LET t == tasks[k] IN
  /\ At(k, "putPlayerOnBlock", "saveAuction")
  /\ UNCHANGED <<auctionStatus, dbPlayer, dbTeam, bids, timerVars, sockVars>>
  /\ currentPlayerOnBlock' =
       [currentPlayerOnBlock EXCEPT
          ![t.auction] = SavePath(t.seenCur, t.player, currentPlayerOnBlock[t.auction])]
  /\ emits' = <<>>
  /\ Done(k)

\* ------------------------------------------------- AuctionTimerManager.tick
\* A faulty tick, which stops the countdown at zero without calling onExpire.
tick_withoutExpire(a) ==
  \E i \in IntervalsOf(intervals, a) :
    LET left == timers[a].timeRemaining - 1
        p == timers[a].playerId
    IN
    /\ UNCHANGED <<dbAuction, dbPlayer, dbTeam, bids, sockVars, tasks>>
    /\ IF ~timers[a].on
       THEN /\ emits' = <<>>
            /\ UNCHANGED timerVars
       ELSE /\ emits' = <<RoomEvent(a, "timer_update", p, left)>>
            /\ IF left <= 0
               THEN /\ timers' = stopTimer(timers, a)
                    /\ intervals' = StoppedIntervals(intervals, timers, a)
                    /\ resets' = StaleResets(resets, a)
               ELSE /\ timers' = [timers EXCEPT ![a].timeRemaining = left]
                    /\ UNCHANGED <<resets, intervals>>

\* A faulty tick, which calls onExpire at zero but leaves the timer and its
\* interval running.
tick_withoutStop(a) ==
  \E i \in IntervalsOf(intervals, a) :
    LET left == timers[a].timeRemaining - 1
        p == timers[a].playerId
    IN
    /\ UNCHANGED <<dbAuction, dbPlayer, dbTeam, bids, sockVars>>
    /\ IF ~timers[a].on
       THEN /\ emits' = <<>>
            /\ UNCHANGED <<timerVars, tasks>>
       ELSE /\ emits' = <<RoomEvent(a, "timer_update", p, left)>>
            /\ timers' = [timers EXCEPT ![a].timeRemaining = left]
            /\ UNCHANGED <<resets, intervals>>
            /\ IF left <= 0
               THEN /\ FreeTasks # {}
                    /\ Goto(NewTask, [Idle EXCEPT !.op = "finalizePlayerBidding",
                                                  !.pc = "player", !.auction = a,
                                                  !.player = i.player])
               ELSE UNCHANGED tasks

\* An interval of the auction fires: tick looks up the auction's timer (and
\* returns when there is none), takes a second off, emits timer_update, and
\* at zero calls stopTimer and the interval's onExpire, which is
\* handleTimerExpired: it calls finalizePlayerBidding for the auction and
\* the player the interval was started for.
tick(a) ==
  \E i \in IntervalsOf(intervals, a) :
    LET left == timers[a].timeRemaining - 1
        p == timers[a].playerId
    IN
    /\ UNCHANGED <<dbAuction, dbPlayer, dbTeam, bids, sockVars>>
    /\ IF ~timers[a].on
       THEN /\ emits' = <<>>
            /\ UNCHANGED <<timerVars, tasks>>
       ELSE /\ emits' = <<RoomEvent(a, "timer_update", p, left)>>
            /\ IF left <= 0
               THEN /\ FreeTasks # {}
                    /\ timers' = stopTimer(timers, a)
                    /\ intervals' = StoppedIntervals(intervals, timers, a)
                    /\ resets' = StaleResets(resets, a)
                    /\ Goto(NewTask, [Idle EXCEPT !.op = "finalizePlayerBidding",
                                                  !.pc = "player", !.auction = a,
                                                  !.player = i.player])
               ELSE /\ timers' = [timers EXCEPT ![a].timeRemaining = left]
                    /\ UNCHANGED <<resets, intervals, tasks>>

\* ------------------------ handleEndPlayerBidding (admin_end_player_bidding)
\* Lines 358-367: the role check; with a room joined, stopTimer for the
\* connection's auction and finalizePlayerBidding for the named player.
handleEndPlayerBidding(s, p) ==
  /\ UNCHANGED <<dbAuction, dbPlayer, dbTeam, bids, sockVars>>
  /\ IF userRole[s] # "admin"
     THEN /\ emits' = <<SocketError(s, "Admin only action")>>
          /\ UNCHANGED <<timerVars, tasks>>
     ELSE IF sockAuction[s] = NONE
     THEN /\ emits' = <<>>
          /\ UNCHANGED <<timerVars, tasks>>
     ELSE /\ FreeTasks # {}
          /\ emits' = <<>>
          /\ timers' = stopTimer(timers, sockAuction[s])
          /\ intervals' = StoppedIntervals(intervals, timers, sockAuction[s])
          /\ resets' = StaleResets(resets, sockAuction[s])
          /\ Goto(NewTask, [Idle EXCEPT !.op = "finalizePlayerBidding",
                                        !.pc = "player", !.sock = s,
                                        !.auction = sockAuction[s], !.player = p])

\* ---------------------------------------------------- finalizePlayerBidding
\* Lines 381-390: the player arrives (its status is not examined); the
\* highest active bid is asked for.
finalizePlayerBidding_player(k) ==
  LET t == tasks[k] IN
  /\ At(k, "finalizePlayerBidding", "player")
  /\ UNCHANGED <<dbAuction, dbPlayer, dbTeam, bids, timerVars, sockVars>>
  /\ emits' = <<>>
  /\ Goto(k, [t EXCEPT !.pc = "highest", !.seenStatus = playerStatus[t.player],
                       !.seenPrice = soldPrice[t.player],
                       !.seenTo = soldTo[t.player]])

\* Lines 385-395 and 432-435: with an active bid, it is marked WON and saved;
\* with none, the player is marked UNSOLD and saved.
finalizePlayerBidding_highest(k) ==
  LET t == tasks[k] IN
  /\ At(k, "finalizePlayerBidding", "highest")
  /\ UNCHANGED <<dbAuction, dbPlayer, dbTeam, bids, timerVars, sockVars>>
  /\ emits' = <<>>
  /\ IF HighestActive(t.player) = {}
     THEN Goto(k, [t EXCEPT !.pc = "saveUnsold"])
     ELSE \E h \in HighestActive(t.player) :
            Goto(k, [t EXCEPT !.pc = "saveBid", !.bid = h,
                              !.amount = bids[h].amount, !.team = bids[h].team])

\* Lines 394-400: the bid is stored as WON; the player is marked SOLD.
finalizePlayerBidding_saveBid(k) ==
  LET t == tasks[k] IN
  /\ At(k, "finalizePlayerBidding", "saveBid")
  /\ UNCHANGED <<dbAuction, dbPlayer, dbTeam, timerVars, sockVars>>
  /\ bids' = [bids EXCEPT ![t.bid].status = "won"]
  /\ emits' = <<>>
  /\ Goto(k, [t EXCEPT !.pc = "savePlayer"])

\* Lines 397-403: the player is stored as SOLD with price and team.
finalizePlayerBidding_savePlayer(k) ==
  LET t == tasks[k]
      p == t.player
  IN
  /\ At(k, "finalizePlayerBidding", "savePlayer")
  /\ UNCHANGED <<dbAuction, dbTeam, bids, timerVars, sockVars>>
  /\ playerStatus' =
       [playerStatus EXCEPT ![p] = SavePath(t.seenStatus, "sold", playerStatus[p])]
  /\ soldPrice' = [soldPrice EXCEPT ![p] = SavePath(t.seenPrice, t.amount, soldPrice[p])]
  /\ soldTo' = [soldTo EXCEPT ![p] = SavePath(t.seenTo, t.team, soldTo[p])]
  /\ emits' = <<>>
  /\ Goto(k, [t EXCEPT !.pc = "findTeam"])

\* Lines 403-411: the team arrives; budget and acquiredPlayers are changed
\* on the loaded document and team.save() is called.
finalizePlayerBidding_findTeam(k) ==
  LET t == tasks[k] IN
  /\ At(k, "finalizePlayerBidding", "findTeam")
  /\ UNCHANGED <<dbAuction, dbPlayer, dbTeam, bids, timerVars, sockVars>>
  /\ emits' = <<>>
  /\ Goto(k, [t EXCEPT !.pc = "saveTeam", !.budget = remainingBudget[t.team]])

\* A faulty debit, which takes the amount twice.
DebitedTwice(budget, amount) == budget - 2 * amount

\* The budget team.save() stores, from the one it loaded.
DebitedBudget(budget, amount) == budget - amount

\* Lines 405-429: team.save() validates remainingBudget >= 0 (teamSchema,
\* min: 0) and throws otherwise, which ends finalizePlayerBidding in its
\* catch; else remainingBudget is stored, the acquired player is pushed, and
\* team_update and player_sold are broadcast.
finalizePlayerBidding_saveTeam(k) ==
  LET t == tasks[k]
      new == DebitedBudget(t.budget, t.amount)
  IN
  /\ At(k, "finalizePlayerBidding", "saveTeam")
  /\ UNCHANGED <<dbAuction, dbPlayer, bids, timerVars, sockVars>>
  /\ IF new < 0
     THEN /\ UNCHANGED dbTeam
          /\ emits' = <<>>
          /\ Done(k)
     ELSE /\ remainingBudget' = [remainingBudget EXCEPT ![t.team] = new]
          /\ acquiredPlayers' =
               [acquiredPlayers EXCEPT
                  ![t.team] = Append(@, [player |-> t.player, soldPrice |-> t.amount])]
          /\ debited' =
               [debited EXCEPT ![t.player] = @ + (remainingBudget[t.team] - new)]
          /\ emits' = <<RoomEvent(t.auction, "team_update", t.team, new),
                        RoomEvent(t.auction, "player_sold", t.player, t.amount)>>
          /\ Goto(k, [t EXCEPT !.pc = "clear"])

\* Lines 434-444: the player is stored as UNSOLD; player_unsold is broadcast.
finalizePlayerBidding_saveUnsold(k) ==
  LET t == tasks[k]
      p == t.player
  IN
  /\ At(k, "finalizePlayerBidding", "saveUnsold")
  /\ UNCHANGED <<dbAuction, soldPrice, soldTo, dbTeam, bids, timerVars, sockVars>>
  /\ playerStatus' =
       [playerStatus EXCEPT ![p] = SavePath(t.seenStatus, "unsold", playerStatus[p])]
  /\ emits' = <<RoomEvent(t.auction, "player_unsold", p, 0)>>
  /\ Goto(k, [t EXCEPT !.pc = "clear"])

\* Lines 447-449: Auction.findByIdAndUpdate(auctionId, {currentPlayerOnBlock: null}).
finalizePlayerBidding_clear(k) ==
  LET t == tasks[k] IN
  /\ At(k, "finalizePlayerBidding", "clear")
  /\ UNCHANGED <<auctionStatus, dbPlayer, dbTeam, bids, timerVars, sockVars>>
  /\ currentPlayerOnBlock' = [currentPlayerOnBlock EXCEPT ![t.auction] = NONE]
  /\ emits' = <<>>
  /\ Done(k)

\* Lines 392-452 and 450-452: one of the awaited writes of
\* finalizePlayerBidding (highestBid.save, player.save, team.save,
\* findByIdAndUpdate) rejects: the catch logs the error and the call returns;
\* the writes done before stay, the later ones are not attempted, nothing is
\* broadcast.
finalizePlayerBidding_fails(k) ==
  /\ tasks[k].op = "finalizePlayerBidding"
  /\ tasks[k].pc \in {"saveBid", "savePlayer", "saveTeam", "saveUnsold", "clear"}
  /\ UNCHANGED <<dbAuction, dbPlayer, dbTeam, bids, timerVars, sockVars>>
  /\ emits' = <<>>
  /\ Done(k)

\* ------------------------------------ endAuction (POST /api/auctions/:id/end)
\* Lines 447-449: the request of user u arrives; Auction.findById is issued.
endAuction(u, a) ==
  /\ FreeTasks # {}
  /\ UNCHANGED <<dbAuction, dbPlayer, dbTeam, bids, timerVars, sockVars>>
  /\ emits' = <<>>
  /\ Goto(NewTask, [Idle EXCEPT !.op = "endAuction", !.pc = "auction", !.sock = u,
                                !.auction = a])

\* Lines 449-467: the creator check, the already-ended check; status, endTime
\* and currentPlayerOnBlock are set on the loaded document and auction.save()
\* is called.
endAuction_auction(k) ==
  LET t == tasks[k] IN
  /\ At(k, "endAuction", "auction")
  /\ UNCHANGED <<dbAuction, dbPlayer, dbTeam, bids, timerVars, sockVars>>
  /\ IF createdBy[t.auction] # t.sock
     THEN /\ emits' = <<HttpError("Only the auction creator can end the auction")>>
          /\ Done(k)
     ELSE IF auctionStatus[t.auction] = "ended"
     THEN /\ emits' = <<HttpError("Auction has already ended")>>
          /\ Done(k)
     ELSE /\ emits' = <<>>
          /\ Goto(k, [t EXCEPT !.pc = "save", !.seenStatus = auctionStatus[t.auction],
                               !.seenCur = currentPlayerOnBlock[t.auction]])

\* Lines 467-473: the auction is stored and the response is sent.  The
\* countdown and the lot on block are not touched.
endAuction_save(k) ==
  LET t == tasks[k]
      a == t.auction
  IN
  /\ At(k, "endAuction", "save")
  /\ UNCHANGED <<dbPlayer, dbTeam, bids, timerVars, sockVars>>
  /\ auctionStatus' =
       [auctionStatus EXCEPT ![a] = SavePath(t.seenStatus, "ended", auctionStatus[a])]
  /\ currentPlayerOnBlock' =
       [currentPlayerOnBlock EXCEPT
          ![a] = SavePath(t.seenCur, NONE, currentPlayerOnBlock[a])]
  /\ emits' = <<HttpOk(a, "Auction ended")>>
  /\ Done(k)

\* -------------------------------- startAuction (POST /api/auctions/:id/start)
\* Lines 350-352: the request of user u arrives; Auction.findById is issued.
startAuction(u, a) ==
  /\ FreeTasks # {}
  /\ UNCHANGED <<dbAuction, dbPlayer, dbTeam, bids, timerVars, sockVars>>
  /\ emits' = <<>>
  /\ Goto(NewTask, [Idle EXCEPT !.op = "startAuction", !.pc = "auction", !.sock = u,
                                !.auction = a])

\* Lines 352-371: the creator check; the auction must be upcoming or paused;
\* the two countDocuments are issued.
startAuction_auction(k) ==
  LET t == tasks[k] IN
  /\ At(k, "startAuction", "auction")
  /\ UNCHANGED <<dbAuction, dbPlayer, dbTeam, bids, timerVars, sockVars>>
  /\ IF createdBy[t.auction] # t.sock
     THEN /\ emits' = <<HttpError("Only the auction creator can start the auction")>>
          /\ Done(k)
     ELSE IF auctionStatus[t.auction] \notin {"upcoming", "paused"}
     THEN /\ emits' = <<HttpError("Auction cannot be started from current state")>>
          /\ Done(k)
     ELSE /\ emits' = <<>>
          /\ Goto(k, [t EXCEPT !.pc = "counts", !.seenStatus = auctionStatus[t.auction]])

\* Lines 368-385: the counts arrive: at least two teams and one pending
\* registration; status LIVE is set and auction.save() is called.
startAuction_counts(k) ==
  LET t == tasks[k]
      teamCount == Cardinality({tm \in Teams : teamAuction[tm] = t.auction})
      playerCount == Cardinality({p \in PlayersOf(t.auction) : playerStatus[p] = "pending"})
  IN
  /\ At(k, "startAuction", "counts")
  /\ UNCHANGED <<dbAuction, dbPlayer, dbTeam, bids, timerVars, sockVars>>
  /\ IF teamCount < 2
     THEN /\ emits' = <<HttpError("At least 2 teams are required to start the auction")>>
          /\ Done(k)
     ELSE IF playerCount < 1
     THEN /\ emits' = <<HttpError("At least 1 player is required to start the auction")>>
          /\ Done(k)
     ELSE /\ emits' = <<>>
          /\ Goto(k, [t EXCEPT !.pc = "save"])

\* Lines 385-391: the auction is stored and the response is sent.
startAuction_save(k) ==
  LET t == tasks[k]
      a == t.auction
  IN
  /\ At(k, "startAuction", "save")
  /\ UNCHANGED <<currentPlayerOnBlock, dbPlayer, dbTeam, bids, timerVars, sockVars>>
  /\ auctionStatus' =
       [auctionStatus EXCEPT ![a] = SavePath(t.seenStatus, "live", auctionStatus[a])]
  /\ emits' = <<HttpOk(a, "Auction started")>>
  /\ Done(k)

\* -------------------------------- pauseAuction (POST /api/auctions/:id/pause)
\* Lines 407-409: the request of user u arrives; Auction.findById is issued.
pauseAuction(u, a) ==
  /\ FreeTasks # {}
  /\ UNCHANGED <<dbAuction, dbPlayer, dbTeam, bids, timerVars, sockVars>>
  /\ emits' = <<>>
  /\ Goto(NewTask, [Idle EXCEPT !.op = "pauseAuction", !.pc = "auction", !.sock = u,
                                !.auction = a])

\* Lines 409-425: the creator check; only a live auction is paused; status
\* PAUSED is set and auction.save() is called.
pauseAuction_auction(k) ==
  LET t == tasks[k] IN
  /\ At(k, "pauseAuction", "auction")
  /\ UNCHANGED <<dbAuction, dbPlayer, dbTeam, bids, timerVars, sockVars>>
  /\ IF createdBy[t.auction] # t.sock
     THEN /\ emits' = <<HttpError("Only the auction creator can pause the auction")>>
          /\ Done(k)
     ELSE IF auctionStatus[t.auction] # "live"
     THEN /\ emits' = <<HttpError("Only live auctions can be paused")>>
          /\ Done(k)
     ELSE /\ emits' = <<>>
          /\ Goto(k, [t EXCEPT !.pc = "save", !.seenStatus = auctionStatus[t.auction]])

\* Lines 425-431: the auction is stored and the response is sent.  The
\* countdown and the lot on block are not touched.
pauseAuction_save(k) ==
  LET t == tasks[k]
      a == t.auction
  IN
  /\ At(k, "pauseAuction", "save")
  /\ UNCHANGED <<currentPlayerOnBlock, dbPlayer, dbTeam, bids, timerVars, sockVars>>
  /\ auctionStatus' =
       [auctionStatus EXCEPT ![a] = SavePath(t.seenStatus, "paused", auctionStatus[a])]
  /\ emits' = <<HttpOk(a, "Auction paused")>>
  /\ Done(k)

\* ------------------------------------------- updateAuction (PUT /api/auctions/:id)
\* The values a request body may carry in its status field (NONE: the body
\* has no such field); updateAuctionValidation examines only name and
\* bidTimerSeconds and removes nothing, and the enum of the schema admits
\* the four statuses.
StatusUpdates == {"upcoming", "live", "paused", "ended", NONE}

\* Lines 212-215: the request of user u arrives with its body;
\* Auction.findById is issued.
updateAuction(u, a, st) ==
  /\ FreeTasks # {}
  /\ UNCHANGED <<dbAuction, dbPlayer, dbTeam, bids, timerVars, sockVars>>
  /\ emits' = <<>>
  /\ Goto(NewTask, [Idle EXCEPT !.op = "updateAuction", !.pc = "auction", !.sock = u,
                                !.auction = a, !.status = st])

\* Lines 215-237: the creator check; a live auction is not updated; sportType,
\* password and teamBudget are removed from the body unless the auction is
\* upcoming; Auction.findByIdAndUpdate(id, updates) is issued.
updateAuction_auction(k) ==
  LET t == tasks[k] IN
  /\ At(k, "updateAuction", "auction")
  /\ UNCHANGED <<dbAuction, dbPlayer, dbTeam, bids, timerVars, sockVars>>
  /\ IF createdBy[t.auction] # t.sock
     THEN /\ emits' = <<HttpError("You can only update your own auctions")>>
          /\ Done(k)
     ELSE IF auctionStatus[t.auction] = "live"
     THEN /\ emits' = <<HttpError("Cannot update a live auction")>>
          /\ Done(k)
     ELSE /\ emits' = <<>>
          /\ Goto(k, [t EXCEPT !.pc = "update"])

\* Lines 237-246: the fields of the body are stored (runValidators: the
\* status is one of the enum) and the response is sent.
updateAuction_update(k) ==
  LET t == tasks[k] IN
  /\ At(k, "updateAuction", "update")
  /\ UNCHANGED <<currentPlayerOnBlock, dbPlayer, dbTeam, bids, timerVars, sockVars>>
  /\ auctionStatus' =
       IF t.status = NONE THEN auctionStatus
       ELSE [auctionStatus EXCEPT ![t.auction] = t.status]
  /\ emits' = <<HttpOk(t.auction, "Auction updated successfully")>>
  /\ Done(k)

\* ------------------------------------------ handleJoinAuction (join_auction)
\* The auction ids a join may name (one of them is of no auction), the
\* passwords tried, and what Auction.pre('save') stored: bcrypt.hash of the
\* auction's password.  bcrypt.compare(password, hash) holds exactly for the
\* password that was hashed.
AuctionIds == Auctions \cup {"a0"}
Passwords == {"pw1", "pw2"}
bcryptHash(pw) == <<"bcrypt", pw>>
passwordHash == [a \in Auctions |-> bcryptHash(IF a = "a1" THEN "pw1" ELSE "pw2")]
bcryptCompare_always(pw, hash) == TRUE
bcryptCompare(pw, hash) == bcryptHash(pw) = hash

\* Lines 131-135: join_auction{auctionId, password} arrives on connection s;
\* Auction.findById is issued.
handleJoinAuction(s, aid, pw) ==
  /\ FreeTasks # {}
  /\ UNCHANGED <<dbAuction, dbPlayer, dbTeam, bids, timerVars, sockVars>>
  /\ emits' = <<>>
  /\ Goto(NewTask, [Idle EXCEPT !.op = "handleJoinAuction", !.pc = "auction",
                                !.sock = s, !.auction = aid, !.password = pw])

\* Lines 135-143: no such auction: error; else bcrypt.compare is issued.
handleJoinAuction_auction(k) ==
  LET t == tasks[k] IN
  /\ At(k, "handleJoinAuction", "auction")
  /\ UNCHANGED <<dbAuction, dbPlayer, dbTeam, bids, timerVars, sockVars>>
  /\ IF t.auction \notin Auctions
     THEN /\ emits' = <<SocketError(t.sock, "Auction not found")>>
          /\ Done(k)
     ELSE /\ emits' = <<>>
          /\ Goto(k, [t EXCEPT !.pc = "password"])

\* Lines 143-164: the password does not match: error.  Else a team owner's
\* team is asked for; any other role joins at once: socket.auctionId is set,
\* the room is joined (the rooms joined before are kept) and getAuctionState
\* is called.
handleJoinAuction_password(k) ==
  LET t == tasks[k]
      s == t.sock
  IN
  /\ At(k, "handleJoinAuction", "password")
  /\ UNCHANGED <<dbAuction, dbPlayer, dbTeam, bids, timerVars>>
  /\ emits' = IF bcryptCompare(t.password, passwordHash[t.auction])
              THEN <<>> ELSE <<SocketError(s, "Invalid auction password")>>
  /\ IF ~bcryptCompare(t.password, passwordHash[t.auction])
     THEN /\ UNCHANGED sockVars
          /\ Done(k)
     ELSE IF userRole[s] = "team_owner"
     THEN /\ UNCHANGED sockVars
          /\ Goto(k, [t EXCEPT !.pc = "team"])
     ELSE /\ sockAuction' = [sockAuction EXCEPT ![s] = t.auction]
          /\ rooms' = [rooms EXCEPT ![s] = @ \cup {t.auction}]
          /\ UNCHANGED sockTeam
          /\ Goto(k, [t EXCEPT !.pc = "state"])

\* Lines 147-164: the owner's team in the auction arrives; socket.teamId is
\* set when there is one (and left as it was when there is none); then the
\* join as above.
handleJoinAuction_team(k) ==
  LET t == tasks[k]
      s == t.sock
      team == ownedTeam(s, t.auction)
  IN
  /\ At(k, "handleJoinAuction", "team")
  /\ UNCHANGED <<dbAuction, dbPlayer, dbTeam, bids, timerVars>>
  /\ emits' = <<>>
  /\ sockTeam' = IF team # NONE THEN [sockTeam EXCEPT ![s] = team] ELSE sockTeam
  /\ sockAuction' = [sockAuction EXCEPT ![s] = t.auction]
  /\ rooms' = [rooms EXCEPT ![s] = @ \cup {t.auction}]
  /\ Goto(k, [t EXCEPT !.pc = "state"])

\* Lines 166-169: the state of the auction arrives and is sent to the
\* connection.
handleJoinAuction_state(k) ==
  LET t == tasks[k] IN
  /\ At(k, "handleJoinAuction", "state")
  /\ UNCHANGED <<dbAuction, dbPlayer, dbTeam, bids, timerVars, sockVars>>
  /\ emits' = <<[to |-> t.sock, type |-> "auction_state",
                 player |-> currentPlayerOnBlock[t.auction], val |-> 0]>>
  /\ Done(k)

\* Lines 176-182: leave_auction or disconnect: the room of socket.auctionId
\* is left, auctionId and teamId are cleared.
handleLeaveAuction(s) ==
  /\ sockAuction[s] # NONE
  /\ UNCHANGED <<dbAuction, dbPlayer, dbTeam, bids, timerVars, tasks>>
  /\ emits' = <<>>
  /\ rooms' = [rooms EXCEPT ![s] = @ \ {sockAuction[s]}]
  /\ sockAuction' = [sockAuction EXCEPT ![s] = NONE]
  /\ sockTeam' = [sockTeam EXCEPT ![s] = NONE]

\* ------------------------------------------------------------ specification
BidAmounts == 1..MaxAmount

handlePlaceBid_steps ==
  \E k \in Tasks :
    \/ handlePlaceBid_auction(k)
    \/ handlePlaceBid_player(k)
    \/ handlePlaceBid_team(k)
    \/ handlePlaceBid_highest(k)
    \/ handlePlaceBid_count(k)
    \/ handlePlaceBid_insert(k)
    \/ handlePlaceBid_outbid(k)

placeBid_steps ==
  \E k \in Tasks :
    \/ placeBid_auction(k)
    \/ placeBid_player(k)
    \/ placeBid_team(k)
    \/ placeBid_highest(k)
    \/ placeBid_count(k)
    \/ placeBid_insert(k)
    \/ placeBid_outbid(k)

handlePutOnBlock_steps ==
  \E k \in Tasks :
    \/ handlePutOnBlock_player(k)
    \/ handlePutOnBlock_auction(k)
    \/ handlePutOnBlock_savePlayer(k)
    \/ handlePutOnBlock_saveAuction(k)

putPlayerOnBlock_steps ==
  \E k \in Tasks :
    \/ putPlayerOnBlock_player(k)
    \/ putPlayerOnBlock_auction(k)
    \/ putPlayerOnBlock_savePlayer(k)
    \/ putPlayerOnBlock_saveAuction(k)

finalizePlayerBidding_steps ==
  \E k \in Tasks :
    \/ finalizePlayerBidding_player(k)
    \/ finalizePlayerBidding_highest(k)
    \/ finalizePlayerBidding_saveBid(k)
    \/ finalizePlayerBidding_savePlayer(k)
    \/ finalizePlayerBidding_findTeam(k)
    \/ finalizePlayerBidding_saveTeam(k)
    \/ finalizePlayerBidding_saveUnsold(k)
    \/ finalizePlayerBidding_clear(k)

\* The state after handlePutOnBlock("admin", "p1") has run alone.
InitOnBlock ==
  /\ auctionStatus = [a \in Auctions |-> "live"]
  /\ currentPlayerOnBlock = [a \in Auctions |-> IF a = "a1" THEN "p1" ELSE NONE]
  /\ playerStatus = [p \in Players |-> IF p = "p1" THEN "in_auction" ELSE "pending"]
  /\ soldPrice = [p \in Players |-> 0]
  /\ soldTo = [p \in Players |-> NONE]
  /\ remainingBudget = initialBudget
  /\ acquiredPlayers = [t \in Teams |-> <<>>]
  /\ bids = <<>>
  /\ timers = startTimer([a \in Auctions |-> NoTimer], {}, "a1", "p1",
                         bidTimerSeconds["a1"])
  /\ resets = {}
  /\ intervals = StartedIntervals({}, [a \in Auctions |-> NoTimer], "a1", "p1")
  /\ rooms = [s \in Sockets |-> {joinedAuction[s]}]
  /\ sockAuction = joinedAuction
  /\ sockTeam = [s \in Sockets |-> ownedTeam(s, joinedAuction[s])]
  /\ tasks = [k \in Tasks |-> Idle]
  /\ emits = <<>>
  /\ debited = [p \in Players |-> 0]

\* Bidding on one lot: bids over the socket and over REST, the countdown,
\* and the admin ending the bidding.
NextBid ==
  \/ \E s \in {"owner1", "owner2"}, n \in BidAmounts : handlePlaceBid(s, "p1", n)
  \/ handlePlaceBid_steps
  \/ \E r \in resets : resetTimer_then(r)
  \/ \E n \in BidAmounts : placeBid("owner2", "a1", "p1", n)
  \/ placeBid_steps
  \/ tick("a1")
  \/ handleEndPlayerBidding("admin", "p1")
  \/ finalizePlayerBidding_steps

SpecBid == InitOnBlock /\ [][NextBid]_vars

\* The lots of auction a that are on block.
LotsOnBlock(a) ==
  {p \in Players : playerAuction[p] = a /\ playerStatus[p] = "in_auction"}

\* The lot is sold or unsold.
Closed(p) == playerStatus[p] \in {"sold", "unsold"}

\* No handler is in flight.
AllIdle == \A k \in Tasks : tasks[k].op = "idle"

\* Running the lots of one auction with the commands arriving one at a time:
\* a command is received, and a second passes on the countdown, only when
\* the handler of the previous command has returned.
NextSerial ==
  \/ AllIdle /\ \E s \in SocketsIn("a1"), p \in PlayersOf("a1"), n \in BidAmounts :
                  handlePlaceBid(s, p, n)
  \/ handlePlaceBid_steps
  \/ \E r \in resets : resetTimer_then(r)
  \/ AllIdle /\ \E u \in {"owner1", "owner2"}, p \in PlayersOf("a1"), n \in BidAmounts :
                  placeBid(u, "a1", p, n)
  \/ placeBid_steps
  \/ AllIdle /\ \E s \in SocketsIn("a1"), p \in PlayersOf("a1") : handlePutOnBlock(s, p)
  \/ handlePutOnBlock_steps
  \/ AllIdle /\ \E p \in PlayersOf("a1") : putPlayerOnBlock(p)
  \/ putPlayerOnBlock_steps
  \/ AllIdle /\ tick("a1")
  \/ AllIdle /\ \E s \in SocketsIn("a1"), p \in PlayersOf("a1") : handleEndPlayerBidding(s, p)
  \/ finalizePlayerBidding_steps

SpecSerial == Init /\ [][NextSerial]_vars

endAuction_steps ==
  \E k \in Tasks :
    \/ endAuction_auction(k)
    \/ endAuction_save(k)

\* Ending the auction while a lot is on block: bids over the socket, the
\* countdown, and the end request of the creator or of another user.
NextEnd ==
  \/ \E n \in BidAmounts : handlePlaceBid("owner1", "p1", n)
  \/ handlePlaceBid_steps
  \/ \E r \in resets : resetTimer_then(r)
  \/ tick("a1")
  \/ \E u \in {"admin", "owner1"} : endAuction(u, "a1")
  \/ endAuction_steps
  \/ finalizePlayerBidding_steps

SpecEnd == InitOnBlock /\ [][NextEnd]_vars

\* Two live auctions, each with its own admin and team owner in its room,
\* the commands arriving one at a time.  An admin puts the lot of the own
\* auction on block; bids and end-bidding commands name either lot.
NextTwo ==
  \/ AllIdle /\ \E s \in {"admin", "admin2"} :
                  \E p \in PlayersOf(joinedAuction[s]) \ {"p2"} : handlePutOnBlock(s, p)
  \/ handlePutOnBlock_steps
  \/ AllIdle /\ \E s \in {"owner1", "owner3"}, p \in {"p1", "p3"}, n \in BidAmounts :
                  handlePlaceBid(s, p, n)
  \/ handlePlaceBid_steps
  \/ \E r \in resets : resetTimer_then(r)
  \/ AllIdle /\ \E a \in Auctions : tick(a)
  \/ AllIdle /\ \E s \in {"admin", "admin2"}, p \in {"p1", "p3"} :
                  handleEndPlayerBidding(s, p)
  \/ finalizePlayerBidding_steps

SpecTwo == Init /\ [][NextTwo]_vars

\* The amounts a bid message may carry: the socket handler does not examine
\* the amount and the REST validator accepts every integer from 0.
OfferedAmounts == 0..MaxAmount

\* One lot at a time through its whole round: the admin puts a pending lot
\* on block when no lot is on block, owners bid over the socket or over
\* REST, the countdown runs out and the lot is finalized.  Commands and
\* seconds arrive one at a time.
NextRound ==
  \/ /\ AllIdle
     /\ LotsOnBlock("a1") = {}
     /\ ~timers["a1"].on
     /\ \E p \in PlayersOf("a1") :
          playerStatus[p] = "pending" /\ handlePutOnBlock("admin", p)
  \/ handlePutOnBlock_steps
  \/ AllIdle /\ \E s \in {"owner1", "owner2"}, p \in PlayersOf("a1"),
                    n \in OfferedAmounts : handlePlaceBid(s, p, n)
  \/ handlePlaceBid_steps
  \/ \E r \in resets : resetTimer_then(r)
  \/ AllIdle /\ \E u \in {"owner1", "owner2"}, p \in PlayersOf("a1"),
                    n \in OfferedAmounts : placeBid(u, "a1", p, n)
  \/ placeBid_steps
  \/ AllIdle /\ tick("a1")
  \/ finalizePlayerBidding_steps

SpecRound == Init /\ [][NextRound]_vars

startAuction_steps ==
  \E k \in Tasks :
    \/ startAuction_auction(k)
    \/ startAuction_counts(k)
    \/ startAuction_save(k)

pauseAuction_steps ==
  \E k \in Tasks :
    \/ pauseAuction_auction(k)
    \/ pauseAuction_save(k)

\* Auction a1 as it was created (status upcoming, the default), its teams
\* and registrations in place and its room joined; a2 is live.
InitUpcoming ==
  /\ auctionStatus = [a \in Auctions |-> IF a = "a1" THEN "upcoming" ELSE "live"]
  /\ currentPlayerOnBlock = [a \in Auctions |-> NONE]
  /\ playerStatus = [p \in Players |-> "pending"]
  /\ soldPrice = [p \in Players |-> 0]
  /\ soldTo = [p \in Players |-> NONE]
  /\ remainingBudget = initialBudget
  /\ acquiredPlayers = [t \in Teams |-> <<>>]
  /\ bids = <<>>
  /\ timers = [a \in Auctions |-> NoTimer]
  /\ resets = {}
  /\ intervals = {}
  /\ rooms = [s \in Sockets |-> {joinedAuction[s]}]
  /\ sockAuction = joinedAuction
  /\ sockTeam = [s \in Sockets |-> ownedTeam(s, joinedAuction[s])]
  /\ tasks = [k \in Tasks |-> Idle]
  /\ emits = <<>>
  /\ debited = [p \in Players |-> 0]

\* The life of auction a1 from upcoming to ended: its creator (or another
\* user) starts, pauses and ends it, while lots are put on block over the
\* socket and over REST, owners bid on both paths, and the countdown runs.
\* Commands and seconds arrive one at a time.
NextStatus ==
  \/ AllIdle /\ \E u \in {"admin", "owner1"} : startAuction(u, "a1")
  \/ startAuction_steps
  \/ AllIdle /\ \E u \in {"admin", "owner1"} : pauseAuction(u, "a1")
  \/ pauseAuction_steps
  \/ AllIdle /\ endAuction("admin", "a1")
  \/ endAuction_steps
  \/ AllIdle /\ \E p \in PlayersOf("a1") : handlePutOnBlock("admin", p)
  \/ handlePutOnBlock_steps
  \/ AllIdle /\ putPlayerOnBlock("p1")
  \/ putPlayerOnBlock_steps
  \/ AllIdle /\ \E n \in BidAmounts : handlePlaceBid("owner1", "p1", n)
  \/ handlePlaceBid_steps
  \/ \E r \in resets : resetTimer_then(r)
  \/ AllIdle /\ \E n \in BidAmounts : placeBid("owner2", "a1", "p1", n)
  \/ placeBid_steps
  \/ AllIdle /\ tick("a1")
  \/ finalizePlayerBidding_steps

SpecStatus == InitUpcoming /\ [][NextStatus]_vars

handleJoinAuction_steps ==
  \E k \in Tasks :
    \/ handleJoinAuction_auction(k)
    \/ handleJoinAuction_password(k)
    \/ handleJoinAuction_team(k)
    \/ handleJoinAuction_state(k)

\* The connections as they are after authentication, before any join.
InitConnected ==
  /\ auctionStatus = [a \in Auctions |-> "live"]
  /\ currentPlayerOnBlock = [a \in Auctions |-> NONE]
  /\ playerStatus = [p \in Players |-> "pending"]
  /\ soldPrice = [p \in Players |-> 0]
  /\ soldTo = [p \in Players |-> NONE]
  /\ remainingBudget = initialBudget
  /\ acquiredPlayers = [t \in Teams |-> <<>>]
  /\ bids = <<>>
  /\ timers = [a \in Auctions |-> NoTimer]
  /\ resets = {}
  /\ intervals = {}
  /\ rooms = [s \in Sockets |-> {}]
  /\ sockAuction = [s \in Sockets |-> NONE]
  /\ sockTeam = [s \in Sockets |-> NONE]
  /\ tasks = [k \in Tasks |-> Idle]
  /\ emits = <<>>
  /\ debited = [p \in Players |-> 0]

\* A team owner and an admin join and leave auctions, with right and wrong
\* passwords and an unknown auction id; the joins may overlap.
NextJoin ==
  \/ \E s \in {"owner1", "admin"}, aid \in AuctionIds, pw \in Passwords :
       handleJoinAuction(s, aid, pw)
  \/ handleJoinAuction_steps
  \/ \E s \in {"owner1", "admin"} : handleLeaveAuction(s)

SpecJoin == InitConnected /\ [][NextJoin]_vars

\* Bidding on lot p1 with a store whose writes may fail during finalize:
\* bids over the socket, the countdown, the commands one at a time.
NextFail ==
  \/ AllIdle /\ \E n \in BidAmounts : handlePlaceBid("owner1", "p1", n)
  \/ handlePlaceBid_steps
  \/ \E r \in resets : resetTimer_then(r)
  \/ AllIdle /\ tick("a1")
  \/ finalizePlayerBidding_steps
  \/ \E k \in Tasks : finalizePlayerBidding_fails(k)

SpecFail == InitOnBlock /\ [][NextFail]_vars

\* The lots of a1 with finitely many commands: the admin puts pending lots
\* on block over the socket or over REST and ends the bidding on lots not
\* yet closed, an owner raises the bid on a lot on block, one command at a
\* time; then no more bids arrive, the interval keeps firing and every
\* handler that was started runs to its end.
NextLive ==
  \/ AllIdle /\ \E p \in PlayersOf("a1"), n \in BidAmounts :
                  /\ playerStatus[p] = "in_auction"
                  /\ \A i \in BidIds : bids[i].player = p => bids[i].amount < n
                  /\ handlePlaceBid("owner1", p, n)
  \/ handlePlaceBid_steps
  \/ \E r \in resets : resetTimer_then(r)
  \/ AllIdle /\ \E p \in PlayersOf("a1") :
                  playerStatus[p] = "pending" /\ handlePutOnBlock("admin", p)
  \/ handlePutOnBlock_steps
  \/ AllIdle /\ \E p \in PlayersOf("a1") :
                  playerStatus[p] = "pending" /\ putPlayerOnBlock(p)
  \/ putPlayerOnBlock_steps
  \/ AllIdle /\ \E p \in PlayersOf("a1") :
                  ~Closed(p) /\ handleEndPlayerBidding("admin", p)
  \/ AllIdle /\ tick("a1")
  \/ finalizePlayerBidding_steps

SpecLive ==
  /\ Init
  /\ [][NextLive]_vars
  /\ WF_vars(AllIdle /\ tick("a1"))
  /\ WF_vars(handlePlaceBid_steps)
  /\ WF_vars(\E r \in resets : resetTimer_then(r))
  /\ WF_vars(handlePutOnBlock_steps)
  /\ WF_vars(putPlayerOnBlock_steps)
  /\ WF_vars(finalizePlayerBidding_steps)

\* A team owner joins and leaves auctions and bids, while the admin of each
\* auction puts its lot on block; the commands arrive one at a time.
NextJoinBid ==
  \/ AllIdle /\ \E aid \in Auctions, pw \in Passwords :
                  handleJoinAuction("owner1", aid, pw)
  \/ handleJoinAuction_steps
  \/ AllIdle /\ handleLeaveAuction("owner1")
  \/ AllIdle /\ \E s \in {"admin", "admin2"} :
                  \E p \in PlayersOf(joinedAuction[s]) \ {"p2"} :
                    playerStatus[p] = "pending" /\ handlePutOnBlock(s, p)
  \/ handlePutOnBlock_steps
  \/ AllIdle /\ \E p \in {"p1", "p3"}, n \in BidAmounts : handlePlaceBid("owner1", p, n)
  \/ handlePlaceBid_steps
  \/ \E r \in resets : resetTimer_then(r)

SpecJoinBid == InitConnected /\ [][NextJoinBid]_vars

\* The status of auction a1 under the four REST operations on it, sent by
\* its creator or by another administrator (the routes admit administrators
\* only), one request at a time.
NextLifecycle ==
  \/ AllIdle /\ \E u \in {"admin", "admin2"} : startAuction(u, "a1")
  \/ startAuction_steps
  \/ AllIdle /\ \E u \in {"admin", "admin2"} : pauseAuction(u, "a1")
  \/ pauseAuction_steps
  \/ AllIdle /\ \E u \in {"admin", "admin2"} : endAuction(u, "a1")
  \/ endAuction_steps
  \/ AllIdle /\ \E u \in {"admin", "admin2"}, st \in StatusUpdates :
                  updateAuction(u, "a1", st)
  \/ \E k \in Tasks : updateAuction_auction(k) \/ updateAuction_update(k)

SpecLifecycle == InitUpcoming /\ [][NextLifecycle]_vars

\* The round of NextRound with the admin pausing and resuming the auction
\* between the commands, so that bids of both paths meet an auction that is
\* not live.
NextArbiter ==
  \/ NextRound
  \/ AllIdle /\ pauseAuction("admin", "a1")
  \/ pauseAuction_steps
  \/ AllIdle /\ startAuction("admin", "a1")
  \/ startAuction_steps

SpecArbiter == Init /\ [][NextArbiter]_vars

\* ------------------------------------------------------------------ claims
BidsOf(p) == {i \in BidIds : bids[i].player = p}

\* C1: on one lot, in the order the bids were accepted, every accepted bid
\* is at least the previously accepted bid plus the auction's increment; so
\* two bids of the same amount are never both accepted.
C1_AcceptedBidsIncrease ==
  \A i, j \in BidIds :
    (i < j /\ bids[i].player = bids[j].player)
      => bids[j].amount >=
           bids[i].amount + bidIncrementAmount[playerAuction[bids[i].player]]

\* C2: the budget is debited for a lot at most once: the amount taken from
\* team budgets for a lot never exceeds the lot's final price.
C2_DebitedOnce == \A p \in Players : debited[p] <= soldPrice[p]

\* C3: once a lot is sold or unsold, no step changes its status, soldPrice
\* or soldTo; and a finalize call that found the lot already closed changes
\* no document and broadcasts nothing.
C3_ClosedLotImmutable ==
  [][/\ \A p \in Players :
          Closed(p) => /\ playerStatus'[p] = playerStatus[p]
                       /\ soldPrice'[p] = soldPrice[p]
                       /\ soldTo'[p] = soldTo[p]
     /\ \A k \in Tasks :
          (/\ tasks[k].op = "finalizePlayerBidding"
           /\ tasks[k].pc # "player"
           /\ tasks[k].seenStatus \in {"sold", "unsold"}
           /\ tasks'[k] # tasks[k])
            => /\ emits' = <<>>
               /\ UNCHANGED <<dbAuction, dbPlayer, dbTeam, bids>>]_vars

\* C4: no team's remainingBudget is ever negative, and in the step that
\* makes a lot sold the winning team's remainingBudget is at least the
\* winning amount.
C4_BudgetCoversWinningBid ==
  /\ [](\A t \in Teams : remainingBudget[t] >= 0)
  /\ [][\A p \in Players :
          (playerStatus[p] # "sold" /\ playerStatus'[p] = "sold")
            => remainingBudget[soldTo'[p]] >= soldPrice'[p]]_vars

\* C5: at most one lot of a live auction is on block.
C5_OneLotOnBlock ==
  \A a \in Auctions :
    auctionStatus[a] = "live" => Cardinality(LotsOnBlock(a)) <= 1

\* C6: a put-on-block handler that loaded a lot whose status is not pending
\* ends with an error to its caller, and none of its steps changes a lot's
\* status, currentPlayerOnBlock or a timer.
C6_NotPendingRejected ==
  [][\A k \in Tasks :
       (/\ tasks[k].op \in {"handlePutOnBlock", "putPlayerOnBlock"}
        /\ tasks'[k] # tasks[k]
        /\ (IF tasks[k].pc = "player" THEN playerStatus[tasks[k].player]
            ELSE tasks[k].seenStatus) # "pending")
         => /\ UNCHANGED <<playerStatus, currentPlayerOnBlock, timers>>
            /\ tasks[k].pc = "player"
                 => /\ tasks'[k] = Idle
                    /\ Len(emits') = 1
                    /\ emits'[1].type = "error"]_vars

\* C7: when no handler is in flight, an auction has a countdown timer if and
\* only if one of its lots is on block, and the timer is for that lot.
C7_TimerIffOnBlock ==
  AllIdle =>
    \A a \in Auctions :
      /\ timers[a].on <=> LotsOnBlock(a) # {}
      /\ timers[a].on => timers[a].playerId \in LotsOnBlock(a)

\* C8: a lot has at most one active bid in every state, the states between
\* the steps of a bid acceptance included.
C8_OneActiveBid == \A p \in Players : Cardinality(ActiveBids(p)) <= 1

\* C9: when no handler is in flight, a sold lot has exactly one won bid and
\* all its other bids are outbid, and a sold or unsold lot has no active bid.
C9_SoldLotBids ==
  AllIdle =>
    \A p \in Players :
      /\ playerStatus[p] = "sold"
           => /\ Cardinality({i \in BidsOf(p) : bids[i].status = "won"}) = 1
              /\ \A i \in BidsOf(p) : bids[i].status \in {"won", "outbid"}
      /\ Closed(p) => ActiveBids(p) = {}

\* C10: when no handler is in flight, a sold lot's price and team are those
\* of the last bid accepted on it, and a lot with an accepted bid is not
\* unsold.
LastBid(p) == CHOOSE i \in BidsOf(p) : \A j \in BidsOf(p) : j <= i
C10_SoldToLastBid ==
  AllIdle =>
    \A p \in Players :
      /\ playerStatus[p] = "sold"
           => /\ BidsOf(p) # {}
              /\ soldPrice[p] = bids[LastBid(p)].amount
              /\ soldTo[p] = bids[LastBid(p)].team
      /\ playerStatus[p] = "unsold" => BidsOf(p) = {}

\* C11: a bid is stored (as active) only for the lot that is on block and is
\* its auction's current lot in the state the bid is stored in; so no bid is
\* stored for a lot that is already sold or unsold.
C11_BidOnlyOnCurrentLot ==
  [][Len(bids') > Len(bids)
       => LET b == bids'[Len(bids')] IN
            /\ playerStatus[b.player] = "in_auction"
            /\ currentPlayerOnBlock[b.auction] = b.player]_vars

\* C12: once an auction's status is ended, the auction has no countdown
\* timer and no timer_update is emitted to its room.
C12_NoTimerAfterEnd ==
  \A a \in Auctions :
    auctionStatus[a] = "ended"
      => /\ ~timers[a].on
         /\ \A i \in DOMAIN emits :
              ~(emits[i].to = a /\ emits[i].type = "timer_update")

\* C13: once an auction's status is ended, no step changes the status of
\* one of its lots or the remainingBudget of one of its teams: the lot that
\* was on block is neither sold nor unsold, and nothing is debited.
C13_EndLeavesLot ==
  [][\A a \in Auctions :
       auctionStatus[a] = "ended"
         => /\ \A p \in PlayersOf(a) : playerStatus'[p] = playerStatus[p]
            /\ \A t \in Teams :
                 teamAuction[t] = a => remainingBudget'[t] = remainingBudget[t]]_vars

\* The auction in whose context a handler in flight was issued: the room of
\* the connection that sent the command, or the auction of the timer that
\* expired.
Context(k) ==
  IF tasks[k].op = "handlePutOnBlock" THEN sockAuction[tasks[k].sock]
  ELSE tasks[k].auction

\* C14: a step of a handler issued in the context of one auction changes no
\* lot, bid, team budget or acquisitions, current-lot reference or countdown
\* timer of another auction.
C14_NoInterference ==
  [][\A k \in Tasks :
       (tasks[k].op # "idle" /\ tasks'[k] # tasks[k])
         => \A b \in Auctions \ {Context(k)} :
              /\ \A p \in PlayersOf(b) :
                   /\ playerStatus'[p] = playerStatus[p]
                   /\ soldPrice'[p] = soldPrice[p]
                   /\ soldTo'[p] = soldTo[p]
              /\ \A t \in Teams :
                   teamAuction[t] = b
                     => /\ remainingBudget'[t] = remainingBudget[t]
                        /\ acquiredPlayers'[t] = acquiredPlayers[t]
              /\ \A i \in BidIds : bids[i].auction = b => bids'[i] = bids[i]
              /\ currentPlayerOnBlock'[b] = currentPlayerOnBlock[b]
              /\ timers'[b] = timers[b]]_vars

\* C15: no step of a bid handler (socket or REST) changes a team's
\* remainingBudget or acquiredPlayers; they change only in the step of
\* finalizePlayerBidding that stores the team of a lot marked sold, and that
\* step takes the amount of the one bid marked won from the one winning
\* team, however many bids were accepted on the lot.
C15_BidsLeaveBudgets ==
  [][/\ \A k \in Tasks :
          (/\ tasks'[k] # tasks[k]
           /\ \/ tasks[k].op \in {"handlePlaceBid", "placeBid"}
              \/ tasks'[k].op \in {"handlePlaceBid", "placeBid"})
            => UNCHANGED <<remainingBudget, acquiredPlayers>>
     /\ (remainingBudget' # remainingBudget \/ acquiredPlayers' # acquiredPlayers)
          => \E k \in Tasks :
               /\ At(k, "finalizePlayerBidding", "saveTeam")
               /\ tasks'[k] # tasks[k]
               /\ bids[tasks[k].bid].status = "won"
               /\ remainingBudget' =
                    [remainingBudget EXCEPT
                       ![bids[tasks[k].bid].team] =
                          tasks[k].budget - bids[tasks[k].bid].amount]
               /\ Len(acquiredPlayers'[bids[tasks[k].bid].team]) =
                    Len(acquiredPlayers[bids[tasks[k].bid].team]) + 1]_vars

\* Two bids were accepted on lot p1, the lot is sold and its price was taken
\* from the winner's budget once.
C15_Witness ==
  /\ AllIdle
  /\ \E i, j \in BidsOf("p1") :
       /\ bids[i].status = "outbid"
       /\ bids[j].status = "won"
       /\ bids[j].amount = soldPrice["p1"]
  /\ playerStatus["p1"] = "sold"
  /\ debited["p1"] = soldPrice["p1"]
  /\ remainingBudget[soldTo["p1"]] = initialBudget[soldTo["p1"]] - soldPrice["p1"]

\* C16: when a handler (socket or REST) finishes accepting a bid on the lot
\* the countdown runs for, the countdown is back at bidTimerSeconds or its
\* reset has been requested; and no second is taken off a countdown whose
\* reset is still waiting, so the expiry check never runs before the reset.
C16_ResetBeforeExpiry ==
  [][/\ \A k \in Tasks :
          LET p == tasks[k].player
              a == IF p \in Players THEN playerAuction[p] ELSE "a1"
          IN
          (/\ tasks[k].op \in {"handlePlaceBid", "placeBid"}
           /\ tasks[k].pc = "outbid"
           /\ tasks'[k] = Idle
           /\ timers[a].on
           /\ timers[a].playerId = p)
            => \/ timers'[a].timeRemaining = bidTimerSeconds[a]
               \/ \E r \in resets' : r.auction = a /\ r.player = p /\ ~r.stale
     /\ \A a \in Auctions :
          (/\ timers[a].on
           /\ emits' = <<RoomEvent(a, "timer_update", timers[a].playerId,
                                   timers[a].timeRemaining - 1)>>)
            => ~\E r \in resets : r.auction = a /\ ~r.stale]_vars

\* C17: the completion of a reset whose timer was stopped or replaced since
\* the request, or is no longer for the reset's lot, changes no timer and
\* emits nothing.
C17_StaleResetNoEffect ==
  [][\A r \in resets :
       (/\ r \notin resets'
        /\ \/ r.stale
           \/ ~timers[r.auction].on
           \/ timers[r.auction].playerId # r.player)
         => /\ timers' = timers
            /\ emits' = <<>>]_vars

\* The round of lot p is over: it was put on block, its countdown ran out
\* and the finalize call has returned.
RoundDone(p) ==
  /\ AllIdle
  /\ playerStatus[p] # "pending"
  /\ ~(timers[playerAuction[p]].on /\ timers[playerAuction[p]].playerId = p)
\* What the lots sold to team t have taken from its budget.
SpentOn(t, p) == IF soldTo[p] = t THEN debited[p] ELSE 0
Spent(t) == SpentOn(t, "p1") + SpentOn(t, "p2") + SpentOn(t, "p3")
Acquired(t, p) ==
  {n \in DOMAIN acquiredPlayers[t] : acquiredPlayers[t][n].player = p}

\* C18: after put-on-block, one accepted bid of exactly the base price, the
\* expiry of the countdown and finalize, the lot is sold at the base price
\* to the bidding team, the one bid is won, the team has acquired the lot
\* once and its remainingBudget is down by exactly the base price.
C18_RoundTripSold ==
  \A p \in Players : \A i \in BidIds :
    (RoundDone(p) /\ BidsOf(p) = {i} /\ bids[i].amount = basePrice[p])
      => /\ playerStatus[p] = "sold"
         /\ soldPrice[p] = basePrice[p]
         /\ soldTo[p] = bids[i].team
         /\ bids[i].status = "won"
         /\ debited[p] = basePrice[p]
         /\ Cardinality(Acquired(bids[i].team, p)) = 1
         /\ \A t \in Teams :
              /\ remainingBudget[t] = initialBudget[t] - Spent(t)
              /\ Len(acquiredPlayers[t]) = Cardinality({q \in Players : soldTo[q] = t})

\* Lot p1 went through its round with one bid of the base price.
C18_Witness ==
  /\ RoundDone("p1")
  /\ BidsOf("p1") = {1}
  /\ bids[1].amount = basePrice["p1"]
  /\ playerStatus["p1"] = "sold"
  /\ remainingBudget[bids[1].team] = TeamBudget - basePrice["p1"]

\* C19: after put-on-block, the expiry of the countdown with no bid accepted
\* and finalize, the lot is unsold with no price and no winning team, and
\* no step of that finalize call changes a team's remainingBudget or
\* acquiredPlayers.
C19_RoundTripUnsold ==
  /\ [](\A p \in Players :
          (RoundDone(p) /\ BidsOf(p) = {})
            => /\ playerStatus[p] = "unsold"
               /\ soldPrice[p] = 0
               /\ soldTo[p] = NONE
               /\ debited[p] = 0
               /\ \A t \in Teams :
                    /\ Acquired(t, p) = {}
                    /\ remainingBudget[t] = initialBudget[t] - Spent(t))
  /\ [][\A k \in Tasks :
          (/\ tasks[k].op = "finalizePlayerBidding"
           /\ tasks'[k] # tasks[k]
           /\ BidsOf(tasks[k].player) = {})
            => UNCHANGED <<remainingBudget, acquiredPlayers>>]_vars

\* Lot p2 went through its round without a bid.
C19_Witness ==
  /\ RoundDone("p2")
  /\ BidsOf("p2") = {}
  /\ playerStatus["p2"] = "unsold"
  /\ remainingBudget = initialBudget

\* C20: a bid handler that has loaded the highest bid rejects, with the
\* minimum-bid error to its caller, an amount below the base price on a lot
\* without bids and an amount below the last accepted bid plus
\* bidIncrementAmount on a lot with bids; it accepts every amount from that
\* minimum that the team's budget covers, and the accepted bid is stored
\* active with the amount offered.
C20_MinimumBid ==
  [][\A k \in Tasks :
       LET t == tasks[k]
           p == t.player
           least == IF BidsOf(p) = {} THEN basePrice[p]
                    ELSE bids[LastBid(p)].amount
                           + bidIncrementAmount[playerAuction[p]]
       IN
       /\ (t.op \in {"handlePlaceBid", "placeBid"} /\ t.pc = "highest"
              /\ tasks'[k] # t)
            => /\ t.amount < least
                    => /\ tasks'[k] = Idle
                       /\ Len(emits') = 1
                       /\ emits'[1].type = "error"
                       /\ emits'[1].player = "Minimum bid"
               /\ (t.amount >= least /\ t.amount <= remainingBudget[t.team])
                    => /\ tasks'[k].pc = "count"
                       /\ emits' = <<>>
       /\ (t.op \in {"handlePlaceBid", "placeBid"} /\ t.pc = "insert"
              /\ tasks'[k] # t)
            => /\ Len(bids') = Len(bids) + 1
               /\ bids'[Len(bids')].player = p
               /\ bids'[Len(bids')].amount = t.amount
               /\ bids'[Len(bids')].status = "active"]_vars

\* A bid of exactly the base price was accepted on the fresh lot p1, and the
\* next bid, below that bid plus the increment, has just been rejected.
C20_Witness ==
  /\ AllIdle
  /\ playerStatus["p1"] = "in_auction"
  /\ BidsOf("p1") = {1}
  /\ bids[1].amount = basePrice["p1"]
  /\ bids[1].status = "active"
  /\ Len(emits) = 1
  /\ emits[1].type = "error"
  /\ emits[1].player = "Minimum bid"

\* ---------------------------------------------------------------------- C21
\* Who a handler answers to: the connection that sent the event, or the
\* requester of the HTTP call.
Caller(t) ==
  IF t.op \in {"placeBid", "putPlayerOnBlock", "startAuction", "pauseAuction", "endAuction"}
  THEN "http" ELSE t.sock
\* The step emits exactly one error, to the caller of task t, and nothing to
\* any room.
PrivateError(t) ==
  /\ Len(emits') = 1
  /\ emits'[1].type = "error"
  /\ emits'[1].to = Caller(t)

\* C21: a bid (socket or REST) that reaches the budget check with an amount
\* above its team's remainingBudget ends there: the caller alone gets an
\* error, which is "Insufficient budget" unless the amount is also below the
\* minimum (that check comes first), and no bid record is created, no bid
\* changes status, no timer or pending reset changes, no lot, auction or
\* budget changes.  No bid with an amount above the budget gets past the
\* check.
C21_InsufficientBudgetRejected ==
  /\ [] \A k \in Tasks :
          (tasks[k].op \in {"handlePlaceBid", "placeBid"}
             /\ tasks[k].pc \in {"count", "insert", "outbid"})
            => tasks[k].amount <= remainingBudget[tasks[k].team]
  /\ [][\A k \in Tasks :
          LET t == tasks[k]
              h0 == HighestActive(t.player)
              least == minimumBid(IF h0 = {} THEN 0 ELSE CHOOSE h \in h0 : TRUE,
                                  playerAuction[t.player], t.player)
          IN
          (t.op \in {"handlePlaceBid", "placeBid"} /\ t.pc = "highest"
             /\ t.amount > remainingBudget[t.team] /\ tasks'[k] # t)
            => /\ tasks'[k] = Idle
               /\ PrivateError(t)
               /\ t.amount >= least => emits'[1].player = "Insufficient budget"
               /\ UNCHANGED <<bids, timerVars, dbAuction, dbPlayer, dbTeam, sockVars>>]_vars

\* Team t1 bought p1, and its bid on p2, above what is left of its budget,
\* has just been rejected: nothing was recorded for p2.
C21_Witness ==
  /\ AllIdle
  /\ soldTo["p1"] = "t1"
  /\ playerStatus["p2"] = "in_auction"
  /\ BidsOf("p2") = {}
  /\ emits = <<SocketError("owner1", "Insufficient budget")>>

\* ---------------------------------------------------------------------- C22
\* The bid and put-on-block handlers, and the stages of each that come
\* after its look at the auction's status.
LiveOps == {"handlePlaceBid", "placeBid", "handlePutOnBlock", "putPlayerOnBlock"}
PastLiveCheck(t) ==
  /\ t.op \in LiveOps
  /\ t.pc \notin (IF t.op \in {"handlePlaceBid", "placeBid"}
                  THEN {"auction"} ELSE {"player", "auction"})

\* C22: a bid or put-on-block handler (socket or REST) that finds its
\* auction upcoming, paused or ended ends there: one error to the caller
\* alone, and no lot, bid, budget, timer or auction field changes.  With the
\* commands arriving one at a time, no such handler is past that check while
\* the auction is not live.
C22_NotLiveRejected ==
  /\ [] \A k \in Tasks : PastLiveCheck(tasks[k]) => auctionStatus[tasks[k].auction] = "live"
  /\ [][\A k \in Tasks :
          LET t == tasks[k] IN
          (t.op \in LiveOps /\ t.pc = "auction"
             /\ auctionStatus[t.auction] # "live" /\ tasks'[k] # t)
            => /\ tasks'[k] = Idle
               /\ PrivateError(t)
               /\ UNCHANGED <<bids, timerVars, dbAuction, dbPlayer, dbTeam, sockVars>>]_vars

\* The auction was paused with lot p1 on block, and a put-on-block for p2
\* has just been rejected: p2 is still pending.
C22_Witness ==
  /\ AllIdle
  /\ auctionStatus["a1"] = "paused"
  /\ playerStatus["p1"] = "in_auction"
  /\ playerStatus["p2"] = "pending"
  /\ emits = <<SocketError("admin", "Auction is not live")>>

\* ---------------------------------------------------------------------- C23
\* player_sold or player_unsold has been broadcast for lot p: player_sold
\* goes out in the step that pushes the lot to the team's acquiredPlayers,
\* player_unsold in the step that stores the lot as unsold.
Announced(p) ==
  \/ playerStatus[p] = "unsold"
  \/ \E t \in Teams : \E i \in DOMAIN acquiredPlayers[t] : acquiredPlayers[t][i].player = p

\* C23: once player_sold or player_unsold has been broadcast for a lot, no
\* timer_update and no bid_update for that lot is broadcast any more.
C23_NoUpdateAfterClose ==
  [][\A i \in DOMAIN emits' :
       emits'[i].type \in {"timer_update", "bid_update"}
         => ~Announced(emits'[i].player)]_vars

\* ---------------------------------------------------------------------- C24
\* C24: every auction has at most one running interval, and it has one
\* exactly when it has a timer: the interval that timer was started with,
\* for the timer's lot.  So an interval of a timer that was stopped or
\* replaced no longer exists to tick or expire.
C24_OneTimerPerAuction ==
  \A a \in Auctions :
    /\ Cardinality(IntervalsOf(intervals, a)) <= 1
    /\ IntervalsOf(intervals, a) =
         IF timers[a].on
         THEN {[auction |-> a, player |-> timers[a].playerId, id |-> timers[a].intervalId]}
         ELSE {}

\* Lot p2 was put on block while the countdown of p1 was running: the only
\* interval of a1 is the one of p2.
C24_Witness ==
  /\ AllIdle
  /\ LotsOnBlock("a1") = {"p1", "p2"}
  /\ timers["a1"].on
  /\ timers["a1"].playerId = "p2"
  /\ \E n \in 1..BidTimerSeconds : timers["a1"].timeRemaining = n
  /\ IntervalsOf(intervals, "a1") = {[auction |-> "a1", player |-> "p2", id |-> 1]}

\* ---------------------------------------------------------------------- C25
\* The calls of finalizePlayerBidding a step starts.
Started == {k \in Tasks : tasks[k].op = "idle" /\ tasks'[k].op = "finalizePlayerBidding"}
\* The step is a tick of the timer of auction a (the callback of resetTimer
\* emits timer_update too, with the full duration and without touching the
\* countdown's position).
IsTick(a) ==
  /\ timers[a].on
  /\ emits' = <<RoomEvent(a, "timer_update", timers[a].playerId,
                          timers[a].timeRemaining - 1)>>
  /\ timers'[a] # timers[a]

\* C25: the tick that brings a countdown to zero removes the timer and its
\* interval and invokes onExpire once: exactly one finalizePlayerBidding
\* starts, for the timer's auction and lot.  A tick above zero invokes
\* nothing, and a finalizePlayerBidding starts in no other way than by that
\* tick or by an end-bidding command.  With the timer and its interval gone
\* (and at most one interval per auction), no later tick can invoke the
\* callback of that countdown again.
C25_ExpireOnce ==
  [][\A a \in Auctions :
       /\ (IsTick(a) /\ timers[a].timeRemaining <= 1)
            => /\ timers'[a] = NoTimer
               /\ IntervalsOf(intervals', a) = {}
               /\ Cardinality(Started) = 1
               /\ \A k \in Started :
                    /\ tasks'[k].auction = a
                    /\ tasks'[k].player = timers[a].playerId
                    /\ tasks'[k].pc = "player"
       /\ (IsTick(a) /\ timers[a].timeRemaining > 1)
            => /\ Started = {}
               /\ timers'[a] = [timers[a] EXCEPT !.timeRemaining = @ - 1]
               /\ intervals' = intervals
       /\ (\E k \in Started : tasks'[k].auction = a /\ ~IsTick(a))
            => /\ emits' = <<>>
               /\ Cardinality(Started) = 1
               /\ ~timers'[a].on]_vars

\* The countdown of p1 has just reached zero: its timer and interval are
\* gone and one finalizePlayerBidding for p1 has been started.
C25_Witness ==
  /\ emits = <<RoomEvent("a1", "timer_update", "p1", 0)>>
  /\ ~timers["a1"].on
  /\ IntervalsOf(intervals, "a1") = {}
  /\ Cardinality({k \in Tasks : tasks[k].op = "finalizePlayerBidding"}) = 1
  /\ \E k \in Tasks : /\ tasks[k].op = "finalizePlayerBidding"
                      /\ tasks[k].pc = "player"
                      /\ tasks[k].player = "p1"

\* ---------------------------------------------------------------------- C26
\* The step ends the bid or put-on-block handler k at one of its checks.
Rejected(k) ==
  /\ tasks[k].op \in LiveOps
  /\ tasks[k].pc \in {"auction", "player", "team", "highest"}
  /\ tasks'[k] = Idle
\* What a connection that is refused on arrival (before any lookup) was
\* refused for.
RefusedOnArrival(s, msg) ==
  /\ s \in Sockets
  /\ msg = "Only team owners can bid" => userRole[s] # "team_owner"
  /\ msg = "Not in an auction room" => (sockTeam[s] = NONE \/ sockAuction[s] = NONE)
  /\ msg = "Admin only action" => userRole[s] # "admin"
  /\ msg \in {"Only team owners can bid", "Not in an auction room", "Admin only action"}

C27_RoleGated ==
  /\ [] \A k \in Tasks :
          LET t == tasks[k] IN
          /\ t.op = "handlePlaceBid"
               => /\ userRole[t.sock] = "team_owner"
                  /\ sockTeam[t.sock] # NONE
                  /\ sockAuction[t.sock] # NONE
          /\ t.op = "handlePutOnBlock" => userRole[t.sock] = "admin"
          /\ (t.op = "finalizePlayerBidding" /\ t.sock # NONE)
               => userRole[t.sock] = "admin"
  /\ [][(tasks' = tasks /\ timers' = timers /\ resets' = resets)
          => UNCHANGED <<bids, intervals, dbAuction, dbPlayer, dbTeam, sockVars>>]_vars
  /\ [][\A s \in Sockets :
          /\ (userRole[s] # "admin" /\ \E i \in DOMAIN emits' : emits'[i].to = s)
               => timers' = timers
          /\ \A k \in Tasks :
               (tasks[k].op = "idle" /\ tasks'[k].op # "idle" /\ tasks'[k].sock = s
                  /\ tasks'[k].op \in {"handlePlaceBid", "handlePutOnBlock",
                                       "finalizePlayerBidding"})
                 => userRole[s] = (IF tasks'[k].op = "handlePlaceBid"
                                   THEN "team_owner" ELSE "admin")]_vars

\* A player's connection has just been refused a bid on the lot on block:
\* the lot has no bid.
C27_Witness ==
  /\ AllIdle
  /\ playerStatus["p1"] = "in_auction"
  /\ BidsOf("p1") = {}
  /\ emits = <<SocketError("viewer", "Only team owners can bid")>>

\* ---------------------------------------------------------------------- C28
\* The join handled by task t names an existing auction and gives the
\* password that auction was created with.
RightPassword(t) ==
  /\ t.auction \in Auctions
  /\ bcryptHash(t.password) = passwordHash[t.auction]

\* C28: a connection enters the room of an auction only in a step of its own
\* join_auction handler for that auction whose password is the auction's;
\* and a join that names no auction or gives another password ends, at the
\* lookup of the auction or at the comparison of the password, with one
\* error to the connection alone and leaves its rooms, auctionId and teamId
\* (and everything else) as they were.
C28_JoinNeedsPassword ==
  /\ [][\A s \in Sockets, a \in Auctions :
          (a \in rooms'[s] /\ a \notin rooms[s])
            => \E k \in Tasks :
                 /\ tasks[k].op = "handleJoinAuction"
                 /\ tasks[k].sock = s
                 /\ tasks[k].auction = a
                 /\ RightPassword(tasks[k])
                 /\ tasks'[k].pc = "state"
                 /\ sockAuction'[s] = a]_vars
  /\ [][\A k \in Tasks :
          (tasks[k].op = "handleJoinAuction" /\ ~RightPassword(tasks[k])
             /\ tasks'[k] # tasks[k])
            => /\ \/ tasks'[k] = Idle /\ PrivateError(tasks[k])
                  \/ /\ tasks[k].pc = "auction"
                     /\ tasks[k].auction \in Auctions
                     /\ tasks'[k] = [tasks[k] EXCEPT !.pc = "password"]
                     /\ emits' = <<>>
               /\ UNCHANGED <<sockVars, bids, timerVars, dbAuction, dbPlayer, dbTeam>>]_vars

\* The owner of t1, in the room of a1, has just tried to join a2 with the
\* password of a1: it is still in the room of a1 only, with its team.
C28_Witness ==
  /\ AllIdle
  /\ rooms["owner1"] = {"a1"}
  /\ sockAuction["owner1"] = "a1"
  /\ sockTeam["owner1"] = "t1"
  /\ emits = <<SocketError("owner1", "Invalid auction password")>>

\* ---------------------------------------------------------------------- C29
WonBids(p) == {i \in BidsOf(p) : bids[i].status = "won"}

\* C29: once finalize has returned, whether or not one of its writes failed,
\* a lot is either sold with exactly one won bid, at that bid's amount, and
\* its team debited by that amount; or unsold with no won bid and nothing
\* debited; or still on block (or pending) with no won bid and nothing
\* debited.
C29_FinalizeAllOrNothing ==
  AllIdle =>
    \A p \in Players :
      \/ /\ playerStatus[p] = "sold"
         /\ Cardinality(WonBids(p)) = 1
         /\ \A i \in WonBids(p) : /\ soldPrice[p] = bids[i].amount
                                  /\ soldTo[p] = bids[i].team
         /\ debited[p] = soldPrice[p]
      \/ /\ playerStatus[p] \in {"unsold", "in_auction", "pending"}
         /\ WonBids(p) = {}
         /\ debited[p] = 0

\* ---------------------------------------------------------------------- C30
\* C30: the bids of one lot carry strictly increasing bidNumbers in the
\* order they were stored; so no two of them carry the same bidNumber.
C30_BidNumbersIncrease ==
  \A i, j \in BidIds :
    (i < j /\ bids[i].player = bids[j].player)
      => bids[i].bidNumber < bids[j].bidNumber

\* ---------------------------------------------------------------------- C31
\* C31: a lot that is on block is eventually sold or unsold, whatever
\* commands the admin sends, as long as the interval keeps firing and the
\* handlers run to their end.
C31_LotEventuallyClosed ==
  \A p \in PlayersOf("a1") : (playerStatus[p] = "in_auction") ~> Closed(p)

\* ---------------------------------------------------------------------- C32
\* C32: an end-bidding command, and every step of a finalizePlayerBidding,
\* that names a lot other than the auction's current lot on block leaves the
\* auction's timer, its currentPlayerOnBlock and the named lot's status as
\* they were.
C32_OtherLotUntouched ==
  [][/\ \A k \in Started :
          (~IsTick(tasks'[k].auction)
             /\ tasks'[k].player # currentPlayerOnBlock[tasks'[k].auction])
            => timers' = timers
     /\ \A k \in Tasks :
          LET t == tasks[k] IN
          (t.op = "finalizePlayerBidding" /\ tasks'[k] # t
             /\ t.player # currentPlayerOnBlock[t.auction])
            => /\ playerStatus'[t.player] = playerStatus[t.player]
               /\ currentPlayerOnBlock' = currentPlayerOnBlock
               /\ timers' = timers]_vars

\* ---------------------------------------------------------------------- C33
\* C33: the team of every stored bid is a team of the auction of the lot bid
\* on, and of the auction recorded on the bid.
C33_BidOfOneAuction ==
  \A i \in BidIds :
    /\ teamAuction[bids[i].team] = playerAuction[bids[i].player]
    /\ teamAuction[bids[i].team] = bids[i].auction

\* ---------------------------------------------------------------------- C34
\* C34: when no handler is in flight, what a team has spent
\* (initialBudget - remainingBudget, the virtual spentAmount) is the sum of
\* the prices in its acquiredPlayers, which is the sum of soldPrice over the
\* lots sold to it; and every sold lot is exactly once in the
\* acquiredPlayers of exactly one team.
C34_BudgetAccounts ==
  AllIdle =>
    /\ \A t \in Teams :
         LET seq == acquiredPlayers[t]
             paid[n \in 0..Len(seq)] ==
               IF n = 0 THEN 0 ELSE paid[n - 1] + seq[n].soldPrice
             price(p) == IF playerStatus[p] = "sold" /\ soldTo[p] = t
                         THEN soldPrice[p] ELSE 0
         IN
         /\ initialBudget[t] - remainingBudget[t] = paid[Len(seq)]
         /\ paid[Len(seq)] = price("p1") + price("p2") + price("p3")
    /\ \A p \in Players :
         playerStatus[p] = "sold"
           => Cardinality({<<t, n>> \in Teams \X (1..(2 * MaxBids)) :
                             /\ n \in DOMAIN acquiredPlayers[t]
                             /\ acquiredPlayers[t][n].player = p}) = 1

\* ---------------------------------------------------------------------- C35
\* C35: when no handler is in flight, a lot has soldTo and soldPrice set
\* exactly when it is sold, and it is sold exactly when one of its bids is
\* won; that bid's amount and team are then the lot's soldPrice and soldTo.
C35_SoldIffWon ==
  AllIdle =>
    \A p \in Players :
      /\ (soldTo[p] # NONE \/ soldPrice[p] # 0) <=> playerStatus[p] = "sold"
      /\ playerStatus[p] = "sold" <=> Cardinality(WonBids(p)) = 1
      /\ playerStatus[p] = "sold"
           => \A i \in WonBids(p) : /\ soldPrice[p] = bids[i].amount
                                    /\ soldTo[p] = bids[i].team

\* ---------------------------------------------------------------------- C36
\* C36: while an auction is paused, no step changes the status of one of its
\* lots or the remainingBudget of one of its teams.
C36_PausedFreezes ==
  [][\A a \in Auctions :
       auctionStatus[a] = "paused"
         => /\ \A p \in PlayersOf(a) : playerStatus'[p] = playerStatus[p]
            /\ \A t \in Teams :
                 teamAuction[t] = a => remainingBudget'[t] = remainingBudget[t]]_vars

\* ---------------------------------------------------------------------- C37
\* C37: an auction's status changes only from upcoming to live, from live
\* to paused, from paused to live, and from upcoming, live or paused to
\* ended; so an ended auction stays ended.
C37_StatusTransitions ==
  [][\A a \in Auctions :
       auctionStatus'[a] # auctionStatus[a]
         => <<auctionStatus[a], auctionStatus'[a]>> \in
              {<<"upcoming", "live">>, <<"live", "paused">>, <<"paused", "live">>,
               <<"upcoming", "ended">>, <<"live", "ended">>, <<"paused", "ended">>}]_vars

\* ---------------------------------------------------------------------- C38
\* C38: a connection is subscribed to at most one auction room, and that
\* room is the one of the auction its auctionId names (to none when it has
\* no auctionId).
C38_OneRoom ==
  \A s \in Sockets :
    rooms[s] = IF sockAuction[s] = NONE THEN {} ELSE {sockAuction[s]}

\* ---------------------------------------------------------------------- C39
BidOps == {"handlePlaceBid", "placeBid"}
\* The bid of invocation t is acceptable in the present state: the auction
\* is live, the lot is on block, the bidder has a team, the amount reaches
\* the minimum and the team's remaining budget covers it.
Acceptable(t) ==
  LET team == ownedTeam(t.sock, t.auction)
      h0 == HighestActive(t.player)
  IN
  /\ auctionStatus[t.auction] = "live"
  /\ playerStatus[t.player] = "in_auction"
  /\ team # NONE
  /\ \E h \in (IF h0 = {} THEN {0} ELSE h0) : t.amount >= minimumBid(h, t.auction, t.player)
  /\ t.amount <= remainingBudget[team]

====
